---- MODULE Spec2Model ----
(***************************************************************************)
(* Multi-tenant schema and connection manager of the forpharma backend:    *)
(* the Tenant Connection Registry (SchemaManagementService), the request-  *)
(* time tenant resolution step (tenantMiddleware), the handlers that reach *)
(* the registry directly, and the startup / shutdown sequence of main.ts.  *)
(***************************************************************************)
EXTENDS Integers, Sequences, FiniteSets, TLC

\* ------------------------------------------------------------------ bounds
NumReq == 2         \* concurrent callers / inbound requests
MaxHandles == 2     \* pools the registry may construct in one run
MaxFailures == 1    \* database failures injected in one run

ManifestLen == 2    \* entries of the migration manifest

NONE == 0           \* "no handle" / "no response yet"
NULL == "null"      \* a null column

Reqs == 1..NumReq
Handles == 1..MaxHandles

\* ------------------------------------------------- control-plane fixture
\* Organization rows: every combination of isActive and schemaName set/null.
OrgIds == {"acme", "beta", "gamma", "delta"}
Organizations ==
    [o \in OrgIds |->
        CASE o = "acme"  -> [isActive |-> TRUE,  schemaName |-> "org_acme"]
          [] o = "beta"  -> [isActive |-> FALSE, schemaName |-> "org_beta"]
          [] o = "gamma" -> [isActive |-> TRUE,  schemaName |-> NULL]
          [] o = "delta" -> [isActive |-> FALSE, schemaName |-> NULL]]

\* User rows, keyed by the unique email; "ghost" has no row at all.
Emails == {"a@acme", "x@acme", "b@beta", "c@gamma", "d@delta", "e@none", "ghost"}
UserEmails == Emails \ {"ghost"}
Users ==
    [e \in UserEmails |->
        CASE e = "a@acme"  -> [organizationId |-> "acme",  role |-> "MR",    isActive |-> TRUE]
          [] e = "x@acme"  -> [organizationId |-> "acme",  role |-> "ADMIN", isActive |-> FALSE]
          [] e = "b@beta"  -> [organizationId |-> "beta",  role |-> "MR",    isActive |-> FALSE]
          [] e = "c@gamma" -> [organizationId |-> "gamma", role |-> "MR",    isActive |-> FALSE]
          [] e = "d@delta" -> [organizationId |-> "delta", role |-> "MR",    isActive |-> TRUE]
          [] e = "e@none"  -> [organizationId |-> NULL,    role |-> "MR",    isActive |-> FALSE]]

Schemas == {"org_acme", "org_beta"}

\* Tenant-local Employee rows per schema; x@acme has a User but no Employee.
Employees ==
    [s \in Schemas |->
        CASE s = "org_acme" -> {"a@acme"}
          [] s = "org_beta" -> {"b@beta"}]

\* Organizations still to be onboarded, and the schema names offered to
\* provisionSchema for them.
NewOrgs == {o \in OrgIds : Organizations[o].schemaName = NULL}
NewSchemas == {"org_gamma", "org_delta"}
ABSENT == -1        \* no namespace of that name exists
NoUnit == [state |-> "idle", schema |-> NULL]

VARIABLES
    \* --- Tenant Connection Registry
    cache,              \* schemaName -> cached handle (NONE if absent)
    inflight,           \* schemaName -> handle being created (the in-flight marker)
    live,               \* handles opened and not yet closed
    handleSchema,       \* handle -> the schemaName its pool is bound to
    nextHandle,         \* next handle identity to construct
    poolsConstructed,   \* schemaName -> pool constructor invocations
    migrationPasses,    \* schemaName -> provisioning/migration passes run by getTenantClient
    resets,             \* schemaName -> times its entry was dropped (close or failed creation)
    schemaCurrent,      \* schemaName -> TRUE when at the current migration version
    gtc,                \* caller -> its getTenantClient call: state, schema, handle, epoch
    failCount,          \* injected failures so far
    \* --- initializeMigrations
    imState,            \* "idle" | "running" | "done" | "failed"
    imTodo,             \* schemas the running pass has still to visit
    ddlCount,           \* schema-change statements issued by the latest initializeMigrations pass
    \* --- control-plane store
    sharedConnected,    \* TRUE while the control-plane handle (sharedDb) is connected
    orgRows,            \* Organization rows
    userRows,           \* User rows
    \* --- process lifecycle (main.ts, organizationRoutes)
    startupVariant,     \* "awaited" | "background": which organizationRoutes file is built
    phase,              \* position of the process in startup / serving / shutdown
    shutdownTrace,      \* shutdown steps taken so far, in order
    \* --- inbound requests
    pc,                 \* request -> position of its handler chain
    route,              \* request -> the route it was sent to
    cred,               \* request -> what it presents: token kind, email, organizationId
    status,             \* request -> HTTP status sent (NONE until a response is sent)
    responses,          \* request -> number of responses sent
    reqTenantDb,        \* request -> req.tenantDb (NONE until attached)
    reqUser,            \* request -> req.user (NULL until attached)
    nextCalled,         \* request -> times next() was called by tenantMiddleware
    sharedQueries,      \* request -> control-plane queries issued for it
    tenantQueries,      \* request -> tenant store queries issued for it
    gtcCalls,           \* request -> getTenantClient calls made for it
    fetched,            \* request -> rows returned to it by a tenant read
    \* --- tenant store and provisioning
    tenantRows,         \* schemaName -> organizationId column of the rows written to it
    nsVersion,          \* new schemaName -> manifest version applied (ABSENT: no namespace)
    prov,               \* organization -> its provisionSchema unit of work
    \* --- domain handlers behind tenantMiddleware (one tenant store)
    hpc,                \* request -> position inside its domain handler
    hreq,               \* request -> req.user, params, body and the rows it has read
    hstatus,            \* request -> status its handler answered (NONE while unanswered)
    idScheme,           \* "shared" | "generated": how Employee row ids relate to User row ids
    rowIds,             \* table -> row ids issued so far
    plannerRows,        \* taskPlanner table: id -> row
    taskRows,           \* doctorTask table: id -> row
    dcrRows,            \* dcrReport table: id -> row
    invRows,            \* userDrugInventory table: id -> quantity
    distRows,           \* sampleDistribution table: id -> row with its drug items
    assocRows,          \* doctorHospitalAssociation table: id -> row
    orderRows,          \* order table: id -> row
    orderItemRows       \* orderItem table: order id -> the item rows of that order

handleVars == <<cache, inflight, live, handleSchema, nextHandle, poolsConstructed,
                migrationPasses, resets, gtc>>
regVars == <<cache, inflight, live, handleSchema, nextHandle, poolsConstructed,
             migrationPasses, resets, schemaCurrent, gtc, failCount>>
migVars == <<imState, imTodo, ddlCount>>
provVars == <<nsVersion, prov>>
dataVars == <<orgRows, userRows, tenantRows, provVars>>
storeVars == <<sharedConnected, dataVars>>
\* The domain tables and handler positions are not touched by the registry,
\* the middleware or the process lifecycle; like startupVariant they are
\* part of what those steps leave alone.
domainVars == <<hpc, hreq, hstatus, rowIds, plannerRows, taskRows, dcrRows, invRows, distRows,
                assocRows, orderRows, orderItemRows>>
staticVars == <<startupVariant, idScheme, domainVars>>
lifeVars == <<staticVars, phase, shutdownTrace>>
reqVars == <<pc, route, cred, status, responses, reqTenantDb, reqUser, nextCalled,
             sharedQueries, tenantQueries, gtcCalls, fetched>>
vars == <<regVars, migVars, storeVars, lifeVars, reqVars>>

NoCall == [state |-> "none", schema |-> NULL, handle |-> NONE, epoch |-> 0, joined |-> FALSE]

RegistryInit ==
    /\ cache = [s \in Schemas |-> NONE]
    /\ inflight = [s \in Schemas |-> NONE]
    /\ live = {}
    /\ handleSchema = [h \in Handles |-> NULL]
    /\ nextHandle = 1
    /\ poolsConstructed = [s \in Schemas |-> 0]
    /\ migrationPasses = [s \in Schemas |-> 0]
    /\ resets = [s \in Schemas |-> 0]
    /\ gtc = [c \in Reqs |-> NoCall]
    /\ failCount = 0

\* ------------------------------------------------------- getTenantClient
\* getTenantClient without the in-flight check: a caller that finds no cache
\* entry always constructs a pool of its own (the duplicate-pool race).
getTenantClientBuggy(c, s) ==
    /\ gtc[c].state = "none"
    /\ IF cache[s] # NONE
       THEN /\ gtc' = [gtc EXCEPT ![c] = [state |-> "resolved", schema |-> s,
                                          handle |-> cache[s], epoch |-> resets[s],
                                          joined |-> FALSE]]
            /\ UNCHANGED <<inflight, handleSchema, nextHandle, poolsConstructed>>
       ELSE /\ nextHandle <= MaxHandles
            /\ inflight' = [inflight EXCEPT ![s] = nextHandle]
            /\ handleSchema' = [handleSchema EXCEPT ![nextHandle] = s]
            /\ nextHandle' = nextHandle + 1
            /\ poolsConstructed' = [poolsConstructed EXCEPT ![s] = @ + 1]
            /\ gtc' = [gtc EXCEPT ![c] = [state |-> "waiting", schema |-> s,
                                          handle |-> nextHandle, epoch |-> resets[s],
                                          joined |-> TRUE]]
    /\ UNCHANGED <<cache, live, migrationPasses, resets, schemaCurrent, failCount>>
    /\ UNCHANGED migVars

\* The synchronous part of getTenantClient(s) for caller c: cache hit, join
\* of the in-flight creation, or a new marker installed before any await.
getTenantClient(c, s) ==
    /\ gtc[c].state = "none"
    /\ IF cache[s] # NONE
       THEN /\ gtc' = [gtc EXCEPT ![c] = [state |-> "resolved", schema |-> s,
                                          handle |-> cache[s], epoch |-> resets[s],
                                          joined |-> FALSE]]
            /\ UNCHANGED <<inflight, handleSchema, nextHandle, poolsConstructed>>
       ELSE IF inflight[s] # NONE
       THEN /\ gtc' = [gtc EXCEPT ![c] = [state |-> "waiting", schema |-> s,
                                          handle |-> inflight[s], epoch |-> resets[s],
                                          joined |-> TRUE]]
            /\ UNCHANGED <<inflight, handleSchema, nextHandle, poolsConstructed>>
       ELSE /\ nextHandle <= MaxHandles
            /\ inflight' = [inflight EXCEPT ![s] = nextHandle]
            /\ handleSchema' = [handleSchema EXCEPT ![nextHandle] = s]
            /\ nextHandle' = nextHandle + 1
            /\ poolsConstructed' = [poolsConstructed EXCEPT ![s] = @ + 1]
            /\ gtc' = [gtc EXCEPT ![c] = [state |-> "waiting", schema |-> s,
                                          handle |-> nextHandle, epoch |-> resets[s],
                                          joined |-> TRUE]]
    /\ UNCHANGED <<cache, live, migrationPasses, resets, schemaCurrent, failCount>>
    /\ UNCHANGED migVars

\* The in-flight creation for s completes: the pool is open, the schema has
\* been verified / brought to the current version, the handle is cached, the
\* marker is cleared, and every caller awaiting it gets the same handle.
getTenantClientResolve(s) ==
    /\ inflight[s] # NONE
    /\ cache' = [cache EXCEPT ![s] = inflight[s]]
    /\ inflight' = [inflight EXCEPT ![s] = NONE]
    /\ live' = live \cup {inflight[s]}
    /\ migrationPasses' = [migrationPasses EXCEPT ![s] = @ + 1]
    /\ schemaCurrent' = [schemaCurrent EXCEPT ![s] = TRUE]
    /\ gtc' = [c \in Reqs |->
                 IF gtc[c].state = "waiting" /\ gtc[c].schema = s /\ gtc[c].handle = inflight[s]
                 THEN [gtc[c] EXCEPT !.state = "resolved"]
                 ELSE gtc[c]]
    /\ UNCHANGED <<handleSchema, nextHandle, poolsConstructed, resets, failCount>>
    /\ UNCHANGED migVars

\* The in-flight creation for s fails (ProvisioningError / ConnectionError):
\* the marker is cleared, nothing is cached, every awaiting caller is rejected.
getTenantClientReject(s) ==
    /\ inflight[s] # NONE
    /\ failCount < MaxFailures
    /\ failCount' = failCount + 1
    /\ inflight' = [inflight EXCEPT ![s] = NONE]
    /\ resets' = [resets EXCEPT ![s] = @ + 1]
    /\ gtc' = [c \in Reqs |->
                 IF gtc[c].state = "waiting" /\ gtc[c].schema = s /\ gtc[c].handle = inflight[s]
                 THEN [gtc[c] EXCEPT !.state = "rejected", !.handle = NONE]
                 ELSE gtc[c]]
    /\ UNCHANGED <<cache, live, handleSchema, nextHandle, poolsConstructed,
                   migrationPasses, schemaCurrent>>
    /\ UNCHANGED migVars

\* ---------------------------------------------------- closeAllConnections
\* closeAllConnections that empties the cache without closing the pools.
closeAllConnectionsLeaky ==
    /\ cache' = [s \in Schemas |-> NONE]
    /\ resets' = [s \in Schemas |-> IF cache[s] # NONE THEN resets[s] + 1 ELSE resets[s]]
    /\ UNCHANGED <<live, inflight, handleSchema, nextHandle, poolsConstructed,
                   migrationPasses, schemaCurrent, gtc, failCount>>
    /\ UNCHANGED migVars

\* closeAllConnections that stops after the first cached handle.
closeAllConnectionsPartial ==
    /\ IF \E s \in Schemas : cache[s] # NONE
       THEN LET s == CHOOSE x \in Schemas : cache[x] # NONE IN
            /\ live' = live \ {cache[s]}
            /\ cache' = [cache EXCEPT ![s] = NONE]
            /\ resets' = [resets EXCEPT ![s] = @ + 1]
       ELSE UNCHANGED <<live, cache, resets>>
    /\ UNCHANGED <<inflight, handleSchema, nextHandle, poolsConstructed,
                   migrationPasses, schemaCurrent, gtc, failCount>>
    /\ UNCHANGED migVars

\* closeAllConnections that closes the pools but keeps their cache entries,
\* so that later calls are answered with a closed handle.
closeAllConnectionsStaleCache ==
    /\ live' = live \ {cache[s] : s \in Schemas}
    /\ resets' = [s \in Schemas |-> IF cache[s] # NONE THEN resets[s] + 1 ELSE resets[s]]
    /\ UNCHANGED <<cache, inflight, handleSchema, nextHandle, poolsConstructed,
                   migrationPasses, schemaCurrent, gtc, failCount>>
    /\ UNCHANGED migVars

\* Closes every cached tenant handle and empties the cache; the control-plane
\* handle and a creation still in flight are left alone.
closeAllConnections ==
    /\ live' = live \ {cache[s] : s \in Schemas}
    /\ cache' = [s \in Schemas |-> NONE]
    /\ resets' = [s \in Schemas |-> IF cache[s] # NONE THEN resets[s] + 1 ELSE resets[s]]
    /\ UNCHANGED <<inflight, handleSchema, nextHandle, poolsConstructed,
                   migrationPasses, schemaCurrent, gtc, failCount>>
    /\ UNCHANGED migVars

\* ---------------------------------------------------- initializeMigrations
\* Every Organization with a non-null schemaName is brought to the current
\* migration version, one schema after the other in the order the
\* organizations are listed.
SchemaOrder == <<"org_acme", "org_beta">>

initializeMigrationsStart ==
    /\ imState \in {"idle", "done"}
    /\ imState' = "running"
    /\ imTodo' = SchemaOrder
    /\ ddlCount' = 0
    /\ UNCHANGED <<handleVars, schemaCurrent, failCount>>

\* initializeMigrations re-applying the manifest to every schema it visits.
initializeMigrationsStepReapplying ==
    /\ imState = "running"
    /\ imTodo # <<>>
    /\ imTodo' = Tail(imTodo)
    /\ ddlCount' = ddlCount + 1
    /\ schemaCurrent' = [schemaCurrent EXCEPT ![Head(imTodo)] = TRUE]
    /\ UNCHANGED <<imState, handleVars, failCount>>

initializeMigrationsStep ==
    /\ imState = "running"
    /\ imTodo # <<>>
    /\ imTodo' = Tail(imTodo)
    /\ ddlCount' = IF schemaCurrent[Head(imTodo)] THEN ddlCount ELSE ddlCount + 1
    /\ schemaCurrent' = [schemaCurrent EXCEPT ![Head(imTodo)] = TRUE]
    /\ UNCHANGED <<imState, handleVars, failCount>>

initializeMigrationsDone ==
    /\ imState = "running"
    /\ imTodo = <<>>
    /\ imState' = "done"
    /\ UNCHANGED <<imTodo, ddlCount, handleVars, schemaCurrent, failCount>>

initializeMigrationsFail ==
    /\ imState = "running"
    /\ imTodo # <<>>
    /\ failCount < MaxFailures
    /\ failCount' = failCount + 1
    /\ imState' = "failed"
    /\ imTodo' = <<>>
    /\ UNCHANGED <<ddlCount, handleVars, schemaCurrent>>

\* --------------------------------------------------------- provisionSchema
\* provisionSchema persisting schemaName before the namespace is built.
provisionSchemaBeginEager(o, s) ==
    /\ prov[o].state = "idle"
    /\ orgRows[o].schemaName = NULL
    /\ nsVersion[s] = ABSENT
    /\ nsVersion' = [nsVersion EXCEPT ![s] = 0]
    /\ prov' = [prov EXCEPT ![o] = [state |-> "running", schema |-> s]]
    /\ orgRows' = [orgRows EXCEPT ![o].schemaName = s]
    /\ UNCHANGED <<regVars, migVars, sharedConnected, userRows, tenantRows>>

\* provisionSchema(o, s) opens its unit of work and creates the namespace;
\* creating a namespace that already exists fails with nothing changed.
provisionSchemaBegin(o, s) ==
    /\ prov[o].state = "idle"
    /\ orgRows[o].schemaName = NULL
    /\ nsVersion[s] = ABSENT
    /\ nsVersion' = [nsVersion EXCEPT ![s] = 0]
    /\ prov' = [prov EXCEPT ![o] = [state |-> "running", schema |-> s]]
    /\ UNCHANGED <<regVars, migVars, sharedConnected, orgRows, userRows, tenantRows>>

\* The next entry of the migration manifest is applied, from version zero.
provisionSchemaApply(o) ==
    /\ prov[o].state = "running"
    /\ nsVersion[prov[o].schema] < ManifestLen
    /\ nsVersion' = [nsVersion EXCEPT ![prov[o].schema] = @ + 1]
    /\ UNCHANGED <<regVars, migVars, sharedConnected, orgRows, userRows, tenantRows, prov>>

\* Only with the full manifest applied is schemaName persisted onto the
\* Organization row, and the unit of work commits.
provisionSchemaCommit(o) ==
    /\ prov[o].state = "running"
    /\ nsVersion[prov[o].schema] = ManifestLen
    /\ orgRows' = [orgRows EXCEPT ![o].schemaName = prov[o].schema]
    /\ prov' = [prov EXCEPT ![o].state = "committed"]
    /\ UNCHANGED <<regVars, migVars, sharedConnected, userRows, tenantRows, nsVersion>>

\* A step fails: the unit of work rolls back, the namespace is dropped and
\* the Organization row is as it was.
provisionSchemaFail(o) ==
    /\ prov[o].state = "running"
    /\ failCount < MaxFailures
    /\ failCount' = failCount + 1
    /\ nsVersion' = [nsVersion EXCEPT ![prov[o].schema] = ABSENT]
    /\ prov' = [prov EXCEPT ![o] = NoUnit]
    /\ UNCHANGED <<handleVars, schemaCurrent, migVars, sharedConnected, orgRows, userRows,
                   tenantRows>>

\* =================================================== request-time handlers
TenantRoutes == {"createHospital", "fetchHospitals"}
Routes == {"createHospital", "fetchHospitals", "login", "activate_account", "get_users"}
TokenKinds == {"missing", "malformed", "expired", "noEmail", "valid"}

NoCred == [token |-> "missing", email |-> NULL, passwordOk |-> FALSE, organizationId |-> NULL]
\* What a request to a tenant route presents in its Authorization header.
BearerCreds ==
    {[NoCred EXCEPT !.token = k] : k \in {"missing", "malformed", "expired", "noEmail"}}
    \cup {[NoCred EXCEPT !.token = "valid", !.email = e] : e \in Emails}
\* Bodies of the auth routes.
LoginBodies ==
    {[NoCred EXCEPT !.email = e, !.passwordOk = TRUE] : e \in {NULL, "a@acme", "x@acme", "d@delta", "ghost"}}
    \cup {[NoCred EXCEPT !.email = "a@acme"]}
ActivateBodies ==
    {[NoCred EXCEPT !.email = e, !.passwordOk = TRUE] : e \in (Emails \cup {NULL}) \ {"d@delta"}}
UsersQueries == {[NoCred EXCEPT !.organizationId = o] : o \in {NULL, "nope", "acme", "beta", "gamma"}}

\* jwt.verify: throws JsonWebTokenError (TokenExpiredError is a subclass) for a
\* bad signature or an expired token, returns the payload otherwise.
jwtVerifyThrows(c) == c.token \in {"malformed", "expired"}
decodedEmail(c) == IF c.token = "valid" THEN c.email ELSE NULL

\* jwt.sign at login: the role claim is the role column of the User row the
\* token was issued for; no handler ever updates that column.
roleClaim(c) == IF c.token = "valid" /\ c.email \in UserEmails THEN Users[c.email].role ELSE NULL

\* sharedDb.user.findUnique({where: {email}}) joined with its organization.
userFound(e) == e \in DOMAIN userRows
hasOrganization(e) == userFound(e) /\ userRows[e].organizationId \in DOMAIN orgRows
organizationOf(e) == orgRows[userRows[e].organizationId]

\* req.user before tenantMiddleware attaches it.
NoUser == [id |-> NULL, email |-> NULL, employeeId |-> NULL, organizationId |-> NULL,
           organizationName |-> NULL, role |-> NULL]

\* Row ids.  The User row's id is issued by the control-plane store and the
\* Employee row's id by the tenant store, each when its row is created: under
\* idScheme "shared" the Employee row was created with the id of its User
\* row, under "generated" the tenant store issued an id of its own.
UserRowId(e) == "user:" \o e
EmployeeRowId(s, e) ==
    IF e \notin Employees[s] THEN NULL
    ELSE IF idScheme = "shared" THEN UserRowId(e) ELSE "employee:" \o e

\* Lines 81-89: req.user as tenantMiddleware builds it for the User with
\* email e once the handle of schema s is attached: id is the tenant Employee
\* id (undefined without an Employee row), employeeId the User id.
AttachedUser(e, s) ==
    [id |-> EmployeeRowId(s, e),
     email |-> e,
     employeeId |-> UserRowId(e),
     organizationId |-> userRows[e].organizationId,
     organizationName |-> userRows[e].organizationId,
     role |-> userRows[e].role]

\* Responding: res.status(code).json(...) for request r.
Respond(r, code) ==
    /\ status' = [status EXCEPT ![r] = code]
    /\ responses' = [responses EXCEPT ![r] = @ + 1]

Serving == phase \in {"listening"}

\* --------------------------------------------------------- tenantMiddleware
\* tenantMiddleware verifying the token only after the control-plane lookup.
tenantMiddlewareAuthLate(r, rt, c) ==
    /\ Serving /\ pc[r] = "idle"
    /\ rt \in {"createHospital", "fetchHospitals"} /\ c \in BearerCreds
    /\ route' = [route EXCEPT ![r] = rt]
    /\ cred' = [cred EXCEPT ![r] = c]
    /\ IF c.token = "missing"
       THEN /\ Respond(r, 401)
            /\ pc' = [pc EXCEPT ![r] = "done"]
            /\ UNCHANGED <<sharedQueries, sharedConnected>>
       ELSE /\ pc' = [pc EXCEPT ![r] = "mwLookup"]
            /\ sharedQueries' = [sharedQueries EXCEPT ![r] = @ + 1]
            /\ sharedConnected' = TRUE
            /\ UNCHANGED <<status, responses>>
    /\ UNCHANGED <<regVars, migVars, dataVars, lifeVars, reqTenantDb, reqUser,
                   nextCalled, fetched, tenantQueries, gtcCalls>>

\* Lines 11-46: token extraction, verification (a throw is answered 401 by
\* the catch block, lines 100-102), email claim, and the issue of the
\* control-plane lookup.
tenantMiddlewareAuth(r, rt, c) ==
    /\ Serving /\ pc[r] = "idle"
    /\ rt \in {"createHospital", "fetchHospitals"} /\ c \in BearerCreds
    /\ route' = [route EXCEPT ![r] = rt]
    /\ cred' = [cred EXCEPT ![r] = c]
    /\ IF c.token = "missing" \/ jwtVerifyThrows(c) \/ decodedEmail(c) = NULL
       THEN /\ Respond(r, 401)
            /\ pc' = [pc EXCEPT ![r] = "done"]
            /\ UNCHANGED <<sharedQueries, sharedConnected>>
       ELSE /\ pc' = [pc EXCEPT ![r] = "mwLookup"]
            /\ sharedQueries' = [sharedQueries EXCEPT ![r] = @ + 1]
            /\ sharedConnected' = TRUE
            /\ UNCHANGED <<status, responses>>
    /\ UNCHANGED <<regVars, migVars, dataVars, lifeVars, reqTenantDb, reqUser,
                   nextCalled, fetched, tenantQueries, gtcCalls>>

\* The checks with the schemaName check ahead of the isActive check.
ResolutionFailureSwapped(e) ==
    IF ~userFound(e) THEN 404
    ELSE IF userRows[e].organizationId = NULL THEN 400
    ELSE IF ~hasOrganization(e) \/ organizationOf(e).schemaName = NULL THEN 500
    ELSE IF ~organizationOf(e).isActive THEN 403
    ELSE NONE

\* Lines 48-64: the status of the first failing check for the row found by
\* email e, NONE when all pass.
ResolutionFailure(e) ==
    IF ~userFound(e) THEN 404
    ELSE IF userRows[e].organizationId = NULL THEN 400
    ELSE IF ~hasOrganization(e) \/ ~organizationOf(e).isActive THEN 403
    ELSE IF organizationOf(e).schemaName = NULL THEN 500
    ELSE NONE

\* tenantMiddleware calling getTenantClient as soon as a schemaName is known,
\* ahead of the isActive check.
tenantMiddlewareLookupEager(r) ==
    /\ pc[r] = "mwLookup"
    /\ LET e == cred[r].email IN
       IF ~hasOrganization(e) \/ organizationOf(e).schemaName = NULL
       THEN /\ Respond(r, ResolutionFailure(e))
            /\ pc' = [pc EXCEPT ![r] = "done"]
            /\ UNCHANGED <<regVars, migVars, gtcCalls>>
       ELSE /\ getTenantClient(r, organizationOf(e).schemaName)
            /\ gtcCalls' = [gtcCalls EXCEPT ![r] = @ + 1]
            /\ IF ResolutionFailure(e) # NONE
               THEN /\ Respond(r, ResolutionFailure(e))
                    /\ pc' = [pc EXCEPT ![r] = "done"]
               ELSE /\ pc' = [pc EXCEPT ![r] = "mwTenant"]
                    /\ UNCHANGED <<status, responses>>
    /\ UNCHANGED <<storeVars, lifeVars, route, cred, reqTenantDb, reqUser, nextCalled, fetched,
                   sharedQueries, tenantQueries>>

\* Lines 28-46 with 97-104: the control-plane lookup rejects (a failed
\* database call); the catch block answers 500.
tenantMiddlewareLookupThrows(r) ==
    /\ pc[r] = "mwLookup"
    /\ failCount < MaxFailures
    /\ failCount' = failCount + 1
    /\ Respond(r, 500)
    /\ pc' = [pc EXCEPT ![r] = "failed"]
    /\ UNCHANGED <<handleVars, schemaCurrent, migVars, storeVars, lifeVars, route, cred,
                   reqTenantDb, reqUser, nextCalled, fetched, sharedQueries, tenantQueries,
                   gtcCalls>>

\* tenantMiddleware marking the User row active once its checks have passed.
tenantMiddlewareLookupActivating(r) ==
    /\ pc[r] = "mwLookup"
    /\ LET e == cred[r].email IN
       IF ResolutionFailure(e) # NONE
       THEN /\ Respond(r, ResolutionFailure(e))
            /\ pc' = [pc EXCEPT ![r] = "done"]
            /\ UNCHANGED <<regVars, migVars, gtcCalls, userRows>>
       ELSE /\ getTenantClient(r, organizationOf(e).schemaName)
            /\ gtcCalls' = [gtcCalls EXCEPT ![r] = @ + 1]
            /\ userRows' = [userRows EXCEPT ![e].isActive = TRUE]
            /\ pc' = [pc EXCEPT ![r] = "mwTenant"]
            /\ UNCHANGED <<status, responses>>
    /\ UNCHANGED <<sharedConnected, orgRows, tenantRows, provVars, lifeVars, route, cred,
                   reqTenantDb, reqUser, nextCalled, fetched, sharedQueries, tenantQueries>>

\* Lines 48-70: the lookup returned; checks in order, then getTenantClient.
tenantMiddlewareLookup(r) ==
    /\ pc[r] = "mwLookup"
    /\ LET e == cred[r].email IN
       IF ResolutionFailure(e) # NONE
       THEN /\ Respond(r, ResolutionFailure(e))
            /\ pc' = [pc EXCEPT ![r] = "done"]
            /\ UNCHANGED <<regVars, migVars, gtcCalls>>
       ELSE /\ getTenantClient(r, organizationOf(e).schemaName)
            /\ gtcCalls' = [gtcCalls EXCEPT ![r] = @ + 1]
            /\ pc' = [pc EXCEPT ![r] = "mwTenant"]
            /\ UNCHANGED <<status, responses>>
    /\ UNCHANGED <<storeVars, lifeVars, route, cred, reqTenantDb, reqUser, nextCalled, fetched,
                   sharedQueries, tenantQueries>>

\* tenantMiddleware attaching a process-wide "current" client, whichever
\* tenant handle is cached, instead of the one its own call returned.
tenantMiddlewareTenantAnyHandle(r) ==
    /\ pc[r] = "mwTenant"
    /\ gtc[r].state \in {"resolved", "rejected"}
    /\ IF gtc[r].state = "resolved"
       THEN /\ \E s \in Schemas :
                  /\ cache[s] # NONE
                  /\ reqTenantDb' = [reqTenantDb EXCEPT ![r] = cache[s]]
            /\ tenantQueries' = [tenantQueries EXCEPT ![r] = @ + 1]
            /\ pc' = [pc EXCEPT ![r] = "mwEmployee"]
            /\ UNCHANGED <<status, responses>>
       ELSE /\ Respond(r, 500)
            /\ pc' = [pc EXCEPT ![r] = "done"]
            /\ UNCHANGED <<reqTenantDb, tenantQueries>>
    /\ UNCHANGED <<regVars, migVars, storeVars, lifeVars, route, cred, reqUser, nextCalled,
                   fetched, sharedQueries, gtcCalls>>

\* Lines 70-79: getTenantClient settled; attach req.tenantDb and look up the
\* tenant-local employee, or fall into the catch block (500).
tenantMiddlewareTenant(r) ==
    /\ pc[r] = "mwTenant"
    /\ gtc[r].state \in {"resolved", "rejected"}
    /\ IF gtc[r].state = "resolved"
       THEN /\ reqTenantDb' = [reqTenantDb EXCEPT ![r] = gtc[r].handle]
            /\ tenantQueries' = [tenantQueries EXCEPT ![r] = @ + 1]
            /\ pc' = [pc EXCEPT ![r] = "mwEmployee"]
            /\ UNCHANGED <<status, responses>>
       ELSE /\ Respond(r, 500)
            /\ pc' = [pc EXCEPT ![r] = "done"]
            /\ UNCHANGED <<reqTenantDb, tenantQueries>>
    /\ UNCHANGED <<regVars, migVars, storeVars, lifeVars, route, cred, reqUser, nextCalled, fetched,
                   sharedQueries, gtcCalls>>

\* tenantMiddleware filling req.user.role from the wrong column.
tenantMiddlewareEmployeeWrongRole(r) ==
    /\ pc[r] = "mwEmployee"
    /\ LET u == userRows[cred[r].email]
           s == gtc[r].schema IN
       reqUser' = [reqUser EXCEPT ![r] =
                     [id |-> EmployeeRowId(s, cred[r].email),
                      email |-> cred[r].email,
                      employeeId |-> UserRowId(cred[r].email),
                      organizationId |-> u.organizationId,
                      organizationName |-> u.organizationId,
                      role |-> u.organizationId]]
    /\ nextCalled' = [nextCalled EXCEPT ![r] = @ + 1]
    /\ pc' = [pc EXCEPT ![r] = "handler"]
    /\ UNCHANGED <<regVars, migVars, storeVars, lifeVars, route, cred, status, responses,
                   reqTenantDb, sharedQueries, tenantQueries, gtcCalls, fetched>>

\* Lines 81-96: req.user is attached (id undefined when no employee row) and
\* next() is called.
tenantMiddlewareEmployee(r) ==
    /\ pc[r] = "mwEmployee"
    /\ reqUser' = [reqUser EXCEPT ![r] = AttachedUser(cred[r].email, gtc[r].schema)]
    /\ nextCalled' = [nextCalled EXCEPT ![r] = @ + 1]
    /\ pc' = [pc EXCEPT ![r] = "handler"]
    /\ UNCHANGED <<regVars, migVars, storeVars, lifeVars, route, cred, status, responses,
                   reqTenantDb, sharedQueries, tenantQueries, gtcCalls, fetched>>

\* tenantMiddleware swallowing the rejection of the employee query and
\* handing the request on.
tenantMiddlewareEmployeeThrowsSwallowed(r) ==
    /\ pc[r] = "mwEmployee"
    /\ failCount < MaxFailures
    /\ failCount' = failCount + 1
    /\ nextCalled' = [nextCalled EXCEPT ![r] = @ + 1]
    /\ pc' = [pc EXCEPT ![r] = "handler"]
    /\ UNCHANGED <<handleVars, schemaCurrent, migVars, storeVars, lifeVars, route, cred,
                   status, responses, reqTenantDb, reqUser, fetched, sharedQueries,
                   tenantQueries, gtcCalls>>

\* Lines 72-79 with 97-104: the employee query rejects (a failed database
\* call); the catch block answers 500 after req.tenantDb was assigned at
\* line 71.
tenantMiddlewareEmployeeThrows(r) ==
    /\ pc[r] = "mwEmployee"
    /\ failCount < MaxFailures
    /\ failCount' = failCount + 1
    /\ Respond(r, 500)
    /\ pc' = [pc EXCEPT ![r] = "done"]
    /\ UNCHANGED <<handleVars, schemaCurrent, migVars, storeVars, lifeVars, route, cred,
                   reqTenantDb, reqUser, nextCalled, fetched, sharedQueries, tenantQueries,
                   gtcCalls>>

\* ------------------------------------------------- domain handlers (tenant)
\* A query issued through handle h runs in the schema h's pool is bound to:
\* a write adds a row carrying value v, a read returns the schema's rows.
TenantWrite(h, v) == [tenantRows EXCEPT ![handleSchema[h]] = @ \cup {v}]
TenantRead(h) == tenantRows[handleSchema[h]]

\* createHospital (hospitalController.ts:6-84): validation or insert, then the
\* finally block disconnects the control-plane handle.
createHospital(r) ==
    /\ pc[r] = "handler" /\ route[r] = "createHospital"
    /\ \E code \in {400, 201, 500} :
          /\ Respond(r, code)
          /\ tenantQueries' = [tenantQueries EXCEPT ![r] = IF code = 400 THEN @ ELSE @ + 1]
          /\ tenantRows' = IF code = 201
                           THEN TenantWrite(reqTenantDb[r], reqUser[r].organizationId)
                           ELSE tenantRows
    /\ sharedConnected' = FALSE
    /\ pc' = [pc EXCEPT ![r] = "done"]
    /\ UNCHANGED <<regVars, migVars, orgRows, userRows, provVars, lifeVars, route, cred,
                   reqTenantDb, reqUser, nextCalled, fetched, sharedQueries, gtcCalls>>

\* fetchHospitals (hospitalController.ts:86-): reads through req.tenantDb only.
fetchHospitals(r) ==
    /\ pc[r] = "handler" /\ route[r] = "fetchHospitals"
    /\ \E code \in {200, 404, 500} :
          /\ Respond(r, code)
          /\ fetched' = [fetched EXCEPT ![r] = IF code = 500 THEN @ ELSE TenantRead(reqTenantDb[r])]
    /\ tenantQueries' = [tenantQueries EXCEPT ![r] = @ + 1]
    /\ pc' = [pc EXCEPT ![r] = "done"]
    /\ UNCHANGED <<regVars, migVars, storeVars, lifeVars, route, cred, reqTenantDb, reqUser,
                   nextCalled, sharedQueries, gtcCalls>>

\* ------------------------------------------------------ auth route handlers
\* loginController, lines 662-678: body check and the user lookup.
loginControllerStart(r, c) ==
    /\ Serving /\ pc[r] = "idle" /\ c \in LoginBodies
    /\ route' = [route EXCEPT ![r] = "login"]
    /\ cred' = [cred EXCEPT ![r] = c]
    /\ IF c.email = NULL
       THEN /\ Respond(r, 400)
            /\ sharedConnected' = FALSE
            /\ pc' = [pc EXCEPT ![r] = "done"]
            /\ UNCHANGED sharedQueries
       ELSE /\ sharedQueries' = [sharedQueries EXCEPT ![r] = @ + 1]
            /\ sharedConnected' = TRUE
            /\ pc' = [pc EXCEPT ![r] = "loginLookup"]
            /\ UNCHANGED <<status, responses>>
    /\ UNCHANGED <<regVars, migVars, dataVars, lifeVars, reqTenantDb, reqUser,
                   nextCalled, fetched, tenantQueries, gtcCalls>>

\* loginController, lines 682-741: checks, token issue, lastLoginAt update,
\* response; the finally block disconnects the control-plane handle.
loginControllerLookup(r) ==
    /\ pc[r] = "loginLookup"
    /\ LET e == cred[r].email IN
       IF ~userFound(e) THEN Respond(r, 401) /\ UNCHANGED sharedQueries
       ELSE IF ~userRows[e].isActive THEN Respond(r, 403) /\ UNCHANGED sharedQueries
       ELSE IF ~cred[r].passwordOk THEN Respond(r, 401) /\ UNCHANGED sharedQueries
       ELSE IF ~hasOrganization(e) \/ ~organizationOf(e).isActive
            THEN Respond(r, 403) /\ UNCHANGED sharedQueries
       ELSE /\ sharedQueries' = [sharedQueries EXCEPT ![r] = @ + 1]
            /\ Respond(r, 200)
    /\ sharedConnected' = FALSE
    /\ pc' = [pc EXCEPT ![r] = "done"]
    /\ UNCHANGED <<regVars, migVars, dataVars, lifeVars, route, cred, reqTenantDb,
                   reqUser, nextCalled, fetched, tenantQueries, gtcCalls>>

\* activateAccountController, lines 585-603: body check and the user lookup.
activateAccountControllerStart(r, c) ==
    /\ Serving /\ pc[r] = "idle" /\ c \in ActivateBodies
    /\ route' = [route EXCEPT ![r] = "activate_account"]
    /\ cred' = [cred EXCEPT ![r] = c]
    /\ IF c.email = NULL
       THEN /\ Respond(r, 400)
            /\ sharedConnected' = FALSE
            /\ pc' = [pc EXCEPT ![r] = "done"]
            /\ UNCHANGED sharedQueries
       ELSE /\ sharedQueries' = [sharedQueries EXCEPT ![r] = @ + 1]
            /\ sharedConnected' = TRUE
            /\ pc' = [pc EXCEPT ![r] = "activateLookup"]
            /\ UNCHANGED <<status, responses>>
    /\ UNCHANGED <<regVars, migVars, dataVars, lifeVars, reqTenantDb, reqUser,
                   nextCalled, fetched, tenantQueries, gtcCalls>>

\* activateAccountController, lines 607-638: user checks, the User row is
\* activated, then the schemaName check (the only check on the organization)
\* and getTenantClient.  A user without organization makes
\* user.organization.schemaName throw, which the catch block answers with 500.
activateAccountControllerLookup(r) ==
    /\ pc[r] = "activateLookup"
    /\ LET e == cred[r].email IN
       IF ~userFound(e) \/ userRows[e].isActive
       THEN /\ Respond(r, IF ~userFound(e) THEN 404 ELSE 400)
            /\ sharedConnected' = FALSE
            /\ pc' = [pc EXCEPT ![r] = "done"]
            /\ UNCHANGED <<regVars, migVars, userRows, sharedQueries, gtcCalls>>
       ELSE /\ userRows' = [userRows EXCEPT ![e].isActive = TRUE]
            /\ sharedQueries' = [sharedQueries EXCEPT ![r] = @ + 1]
            /\ IF ~hasOrganization(e) \/ organizationOf(e).schemaName = NULL
               THEN /\ Respond(r, IF ~hasOrganization(e) THEN 500 ELSE 400)
                    /\ sharedConnected' = FALSE
                    /\ pc' = [pc EXCEPT ![r] = "done"]
                    /\ UNCHANGED <<regVars, migVars, gtcCalls>>
               ELSE /\ getTenantClient(r, organizationOf(e).schemaName)
                    /\ gtcCalls' = [gtcCalls EXCEPT ![r] = @ + 1]
                    /\ pc' = [pc EXCEPT ![r] = "activateTenant"]
                    /\ UNCHANGED <<status, responses, sharedConnected>>
    /\ UNCHANGED <<orgRows, tenantRows, provVars, lifeVars, route, cred, reqTenantDb, reqUser, nextCalled, fetched,
                   tenantQueries>>

\* activateAccountController, lines 638-660: employee.update through the
\* tenant handle (throws when the row is missing), response, finally.
activateAccountControllerTenant(r) ==
    /\ pc[r] = "activateTenant"
    /\ gtc[r].state \in {"resolved", "rejected"}
    /\ IF gtc[r].state = "resolved"
       THEN /\ tenantQueries' = [tenantQueries EXCEPT ![r] = @ + 1]
            /\ IF cred[r].email \in Employees[gtc[r].schema]
               THEN /\ Respond(r, 200)
                    /\ tenantRows' = TenantWrite(gtc[r].handle, cred[r].email)
               ELSE /\ Respond(r, 500)
                    /\ UNCHANGED tenantRows
       ELSE /\ Respond(r, 500)
            /\ UNCHANGED <<tenantQueries, tenantRows>>
    /\ sharedConnected' = FALSE
    /\ pc' = [pc EXCEPT ![r] = "done"]
    /\ UNCHANGED <<regVars, migVars, orgRows, userRows, provVars, lifeVars, route, cred,
                   reqTenantDb, reqUser, nextCalled, fetched, sharedQueries, gtcCalls>>

\* fetchUsersController, lines 825-838: query check and organization lookup.
fetchUsersControllerStart(r, c) ==
    /\ Serving /\ pc[r] = "idle" /\ c \in UsersQueries
    /\ route' = [route EXCEPT ![r] = "get_users"]
    /\ cred' = [cred EXCEPT ![r] = c]
    /\ IF c.organizationId = NULL
       THEN /\ Respond(r, 400)
            /\ sharedConnected' = FALSE
            /\ pc' = [pc EXCEPT ![r] = "done"]
            /\ UNCHANGED sharedQueries
       ELSE /\ sharedQueries' = [sharedQueries EXCEPT ![r] = @ + 1]
            /\ sharedConnected' = TRUE
            /\ pc' = [pc EXCEPT ![r] = "usersLookup"]
            /\ UNCHANGED <<status, responses>>
    /\ UNCHANGED <<regVars, migVars, dataVars, lifeVars, reqTenantDb, reqUser,
                   nextCalled, fetched, tenantQueries, gtcCalls>>

\* fetchUsersController, lines 840-845: only schemaName is selected and
\* checked before getTenantClient.
fetchUsersControllerLookup(r) ==
    /\ pc[r] = "usersLookup"
    /\ LET o == cred[r].organizationId IN
       IF o \notin DOMAIN orgRows \/ orgRows[o].schemaName = NULL
       THEN /\ Respond(r, 404)
            /\ sharedConnected' = FALSE
            /\ pc' = [pc EXCEPT ![r] = "done"]
            /\ UNCHANGED <<regVars, migVars, gtcCalls>>
       ELSE /\ getTenantClient(r, orgRows[o].schemaName)
            /\ gtcCalls' = [gtcCalls EXCEPT ![r] = @ + 1]
            /\ pc' = [pc EXCEPT ![r] = "usersTenant"]
            /\ UNCHANGED <<status, responses, sharedConnected>>
    /\ UNCHANGED <<dataVars, lifeVars, route, cred, reqTenantDb, reqUser,
                   nextCalled, fetched, sharedQueries, tenantQueries>>

\* fetchUsersController, lines 845-867: employee.findMany, response, finally.
fetchUsersControllerTenant(r) ==
    /\ pc[r] = "usersTenant"
    /\ gtc[r].state \in {"resolved", "rejected"}
    /\ IF gtc[r].state = "resolved"
       THEN /\ tenantQueries' = [tenantQueries EXCEPT ![r] = @ + 1]
            /\ Respond(r, 200)
       ELSE /\ Respond(r, 500)
            /\ UNCHANGED tenantQueries
    /\ sharedConnected' = FALSE
    /\ pc' = [pc EXCEPT ![r] = "done"]
    /\ UNCHANGED <<regVars, migVars, dataVars, lifeVars, route, cred, reqTenantDb,
                   reqUser, nextCalled, fetched, sharedQueries, gtcCalls>>

\* ======================================================= process lifecycle
\* organizationRoutes is evaluated while main.ts is imported: it starts
\* initializeMigrations, awaited at top level (part_012:26-29) or inside an
\* un-awaited async function (part_012:59-67).
organizationRoutesLoad ==
    /\ phase = "importing"
    /\ initializeMigrationsStart
    /\ phase' = IF startupVariant = "awaited" THEN "migrating" ELSE "imported"
    /\ UNCHANGED <<storeVars, staticVars, shutdownTrace, reqVars>>

\* The top-level await settles: the import completes, or its rejection ends
\* the process before main.ts reaches app.listen.
organizationRoutesAwaited ==
    /\ phase = "migrating"
    /\ imState \in {"done", "failed"}
    /\ phase' = IF imState = "done" THEN "imported" ELSE "crashed"
    /\ UNCHANGED <<regVars, migVars, storeVars, staticVars, shutdownTrace, reqVars>>

\* main.ts:121-123: the listener binds and accepts connections.
appListen ==
    /\ phase = "imported"
    /\ phase' = "listening"
    /\ UNCHANGED <<regVars, migVars, storeVars, staticVars, shutdownTrace, reqVars>>

AllRequestsEnded == \A r \in Reqs : pc[r] \in {"idle", "done", "failed"}

\* main.ts:126-128: a termination signal; server.close stops accepting.
gracefulShutdown ==
    /\ phase = "listening"
    /\ phase' = "closing"
    /\ shutdownTrace' = Append(shutdownTrace, "stopAccepting")
    /\ UNCHANGED <<regVars, migVars, storeVars, staticVars, reqVars>>

\* main.ts:128-131 with tenantMiddleware.ts:110: once every connection has
\* ended the close callback runs cleanupMiddleware, whose first statement
\* disconnects the control-plane handle.
cleanupMiddlewareDisconnect ==
    /\ phase = "closing"
    /\ AllRequestsEnded
    /\ sharedConnected' = FALSE
    /\ shutdownTrace' = Append(shutdownTrace, "disconnectShared")
    /\ phase' = "cleanup"
    /\ UNCHANGED <<regVars, migVars, dataVars, staticVars, reqVars>>

\* tenantMiddleware.ts:111: then cleanupMiddleware closes the tenant pools.
cleanupMiddlewareCloseAll ==
    /\ phase = "cleanup"
    /\ closeAllConnections
    /\ shutdownTrace' = Append(shutdownTrace, "closeAllConnections")
    /\ phase' = "cleaned"
    /\ UNCHANGED <<storeVars, staticVars, reqVars>>

\* main.ts:132-134: closeAllConnections a second time, then process.exit.
gracefulShutdownCloseAll ==
    /\ phase = "cleaned"
    /\ closeAllConnections
    /\ shutdownTrace' = Append(shutdownTrace, "closeAllConnections")
    /\ phase' = "exited"
    /\ UNCHANGED <<storeVars, staticVars, reqVars>>

Running == phase \notin {"crashed", "exited"}

\* ------------------------------------------- domain handlers: common parts
\* The handlers behind tenantMiddleware work on the tenant store of one
\* organization through req.tenantDb and identify the caller by req.user.
\* Every await of a handler is a step of its own, so two requests interleave
\* between a handler's check and its write unless a transaction joins them.
MaxRows == 2        \* rows a table may be given in one run
MaxQty == 2         \* largest quantity of one item, and the stock an inventory row starts with

DomainSchema == "org_acme"
\* Users of the organization whose requests pass tenantMiddleware: a@acme
\* has an Employee row, x@acme has none (req.user.id is undefined for it).
Actors == {"a@acme", "x@acme"}
RowIds == 1..MaxRows
Tables == {"planner", "task", "dcr", "dist", "assoc", "order"}

NoReq == [op |-> "none"]

Put(tbl, id, row) == [i \in DOMAIN tbl \cup {id} |-> IF i = id THEN row ELSE tbl[i]]
Remove(tbl, id) == [i \in DOMAIN tbl \ {id} |-> tbl[i]]
NoRows == [i \in {} |-> NoReq]

\* A request reaches its handler; requests are numbered in order of arrival.
Arrives(r) == hpc[r] = "idle" /\ \A q \in Reqs : q < r => hpc[q] # "idle"

\* res.status(code).json(...) of a domain handler: the request is over.  What
\* is kept of it is the operation, the row it named, and the status.
Send(r, op, target, code) ==
    /\ hstatus' = [hstatus EXCEPT ![r] = code]
    /\ hpc' = [hpc EXCEPT ![r] = "done"]
    /\ hreq' = [hreq EXCEPT ![r] = [op |-> op, target |-> target]]

\* The handler of r goes on to its next await, keeping its locals.
Await(r, position, locals) ==
    /\ hpc' = [hpc EXCEPT ![r] = position]
    /\ hreq' = [hreq EXCEPT ![r] = locals]
    /\ hstatus' = hstatus

HandlersInit ==
    /\ hpc = [r \in Reqs |-> "idle"]
    /\ hreq = [r \in Reqs |-> NoReq]
    /\ hstatus = [r \in Reqs |-> NONE]

\* The tables of each group of handlers before any of its rows is written.
NoTaskRows == plannerRows = NoRows /\ taskRows = NoRows
NoDcrRows == dcrRows = NoRows
NoSampleRows == invRows = NoRows /\ distRows = NoRows
NoAssociationRows == assocRows = NoRows
NoOrderRows == orderRows = NoRows /\ orderItemRows = NoRows

NoDomainRows ==
    /\ rowIds = [tb \in Tables |-> 0]
    /\ NoTaskRows
    /\ NoDcrRows
    /\ NoSampleRows
    /\ NoAssociationRows
    /\ NoOrderRows

\* The tables a group of handlers never touches.
outsideDcr == <<plannerRows, invRows, distRows, assocRows, orderRows, orderItemRows>>
outsideSamples == <<plannerRows, taskRows, dcrRows, assocRows, orderRows, orderItemRows>>
outsideAssociations == <<plannerRows, taskRows, dcrRows, invRows, distRows, orderRows,
                        orderItemRows>>
outsideTasks == <<dcrRows, invRows, distRows, assocRows, orderRows, orderItemRows>>
outsideOrders == <<plannerRows, taskRows, dcrRows, invRows, distRows, assocRows>>

\* Rows as taskPlanner.create and doctorTask.create leave them: the handlers
\* set the owner (req.user.id) and the planner; isActive, approvalStatus and
\* completionStatus take the column defaults the other handlers rely on.
NewPlanner(employeeId) ==
    [employeeId |-> employeeId, isActive |-> TRUE, approvalStatus |-> "DRAFT"]
NewTask(plannerId, employeeId) ==
    [plannerId |-> plannerId, employeeId |-> employeeId, isActive |-> TRUE,
     approvalStatus |-> "DRAFT", completionStatus |-> "PENDING"]

\* a@acme has created planner 1 with createTaskPlanner and task 1 in it with
\* createTask.
OnePlannerOneTask ==
    /\ plannerRows = Put(NoRows, 1, NewPlanner(EmployeeRowId(DomainSchema, "a@acme")))
    /\ taskRows = Put(NoRows, 1, NewTask(1, EmployeeRowId(DomainSchema, "a@acme")))

\* Everything outside the domain tables and handler positions.
coreVars == <<regVars, migVars, storeVars, startupVariant, idScheme, phase, shutdownTrace,
              reqVars>>

\* ========================================================== specifications
RequestsInit ==
    /\ sharedConnected = TRUE
    /\ userRows = Users
    /\ shutdownTrace = <<>>
    /\ pc = [r \in Reqs |-> "idle"]
    /\ route = [r \in Reqs |-> NULL]
    /\ cred = [r \in Reqs |-> NoCred]
    /\ status = [r \in Reqs |-> NONE]
    /\ responses = [r \in Reqs |-> 0]
    /\ reqTenantDb = [r \in Reqs |-> NONE]
    /\ reqUser = [r \in Reqs |-> NoUser]
    /\ nextCalled = [r \in Reqs |-> 0]
    /\ sharedQueries = [r \in Reqs |-> 0]
    /\ tenantQueries = [r \in Reqs |-> 0]
    /\ gtcCalls = [r \in Reqs |-> 0]
    /\ fetched = [r \in Reqs |-> {}]
    /\ nsVersion = [s \in NewSchemas |-> ABSENT]
    /\ prov = [o \in NewOrgs |-> NoUnit]
    /\ HandlersInit

AppInit ==
    /\ RequestsInit
    /\ idScheme = "generated"
    /\ NoDomainRows
    /\ orgRows = Organizations
    /\ tenantRows = [s \in Schemas |-> {}]

\* At process start no migration pass has run and the tenant schemas are
\* stale (a new manifest shipped with the build being started).
Init ==
    /\ RegistryInit
    /\ schemaCurrent = [s \in Schemas |-> FALSE]
    /\ imState = "idle" /\ imTodo = <<>> /\ ddlCount = 0
    /\ AppInit
    /\ startupVariant \in {"awaited", "background"}
    /\ phase = "importing"

appVars == <<storeVars, lifeVars, reqVars>>

Next ==
    \/ organizationRoutesLoad
    \/ organizationRoutesAwaited
    \/ appListen
    \/ gracefulShutdown
    \/ cleanupMiddlewareDisconnect
    \/ cleanupMiddlewareCloseAll
    \/ gracefulShutdownCloseAll
    \/ Running /\ initializeMigrationsStep /\ UNCHANGED appVars
    \/ Running /\ initializeMigrationsDone /\ UNCHANGED appVars
    \/ Running /\ initializeMigrationsFail /\ UNCHANGED appVars
    \/ \E s \in Schemas : Running /\ getTenantClientResolve(s) /\ UNCHANGED appVars
    \/ \E s \in Schemas : Running /\ getTenantClientReject(s) /\ UNCHANGED appVars
    \/ \E r \in Reqs, rt \in Routes, c \in BearerCreds : tenantMiddlewareAuth(r, rt, c)
    \/ \E r \in Reqs : tenantMiddlewareLookup(r)
    \/ \E r \in Reqs : tenantMiddlewareLookupThrows(r)
    \/ \E r \in Reqs : tenantMiddlewareTenant(r)
    \/ \E r \in Reqs : tenantMiddlewareEmployee(r)
    \/ \E r \in Reqs : tenantMiddlewareEmployeeThrows(r)
    \/ \E r \in Reqs : createHospital(r)
    \/ \E r \in Reqs : fetchHospitals(r)
    \/ \E r \in Reqs, c \in LoginBodies : loginControllerStart(r, c)
    \/ \E r \in Reqs : loginControllerLookup(r)
    \/ \E r \in Reqs, c \in ActivateBodies : activateAccountControllerStart(r, c)
    \/ \E r \in Reqs : activateAccountControllerLookup(r)
    \/ \E r \in Reqs : activateAccountControllerTenant(r)
    \/ \E r \in Reqs, c \in UsersQueries : fetchUsersControllerStart(r, c)
    \/ \E r \in Reqs : fetchUsersControllerLookup(r)
    \/ \E r \in Reqs : fetchUsersControllerTenant(r)

Spec == Init /\ [][Next]_vars

\* The registry driven directly by arbitrary callers, in any interleaving of
\* getTenantClient, initializeMigrations and closeAllConnections.
RegistryHarnessInit ==
    /\ RegistryInit
    /\ schemaCurrent = [s \in Schemas |-> FALSE]
    /\ imState = "idle" /\ imTodo = <<>> /\ ddlCount = 0
    /\ AppInit
    /\ startupVariant = "awaited"
    /\ phase = "importing"

\* A caller drops the settled result of its call and may call again.
CallerRelease(c) ==
    /\ gtc[c].state \in {"resolved", "rejected"}
    /\ gtc' = [gtc EXCEPT ![c] = NoCall]
    /\ UNCHANGED <<cache, inflight, live, handleSchema, nextHandle, poolsConstructed,
                   migrationPasses, resets, schemaCurrent, failCount, migVars>>

RegistryNext ==
    \/ \E c \in Reqs, s \in Schemas : getTenantClient(c, s) /\ UNCHANGED appVars
    \/ \E s \in Schemas : getTenantClientResolve(s) /\ UNCHANGED appVars
    \/ \E s \in Schemas : getTenantClientReject(s) /\ UNCHANGED appVars
    \/ \E c \in Reqs : CallerRelease(c) /\ UNCHANGED appVars
    \/ closeAllConnections /\ UNCHANGED appVars
    \/ initializeMigrationsStart /\ UNCHANGED appVars
    \/ initializeMigrationsStep /\ UNCHANGED appVars
    \/ initializeMigrationsDone /\ UNCHANGED appVars
    \/ initializeMigrationsFail /\ UNCHANGED appVars

SpecRegistry == RegistryHarnessInit /\ [][RegistryNext]_vars

\* The tenant resolution step on its own: the process is serving after an
\* awaited startup brought every schema current, and requests to a tenant
\* route run tenantMiddleware against the registry.
ResolutionInit ==
    /\ RegistryInit
    /\ schemaCurrent = [s \in Schemas |-> TRUE]
    /\ imState = "done" /\ imTodo = <<>> /\ ddlCount = Len(SchemaOrder)
    /\ AppInit
    /\ startupVariant = "awaited"
    /\ phase = "listening"

ResolutionNext ==
    \/ \E r \in Reqs, rt \in TenantRoutes, c \in BearerCreds : tenantMiddlewareAuth(r, rt, c)
    \/ \E r \in Reqs : createHospital(r)
    \/ \E r \in Reqs : tenantMiddlewareLookup(r)
    \/ \E r \in Reqs : tenantMiddlewareLookupThrows(r)
    \/ \E r \in Reqs : tenantMiddlewareTenant(r)
    \/ \E r \in Reqs : tenantMiddlewareEmployee(r)
    \/ \E r \in Reqs : tenantMiddlewareEmployeeThrows(r)
    \/ \E r \in Reqs : fetchHospitals(r)
    \/ \E s \in Schemas : getTenantClientResolve(s) /\ UNCHANGED appVars
    \/ \E s \in Schemas : getTenantClientReject(s) /\ UNCHANGED appVars

SpecResolution == ResolutionInit /\ [][ResolutionNext]_vars

\* Onboarding of new organizations next to the migration passes over the
\* existing schemas.  A schema provisioned here is current from the moment
\* its name is visible, so a pass has nothing to do for it.
provAppVars == <<lifeVars, reqVars>>

ProvisionNext ==
    \/ \E o \in NewOrgs, s \in NewSchemas : provisionSchemaBegin(o, s) /\ UNCHANGED provAppVars
    \/ \E o \in NewOrgs : provisionSchemaApply(o) /\ UNCHANGED provAppVars
    \/ \E o \in NewOrgs : provisionSchemaCommit(o) /\ UNCHANGED provAppVars
    \/ \E o \in NewOrgs : provisionSchemaFail(o) /\ UNCHANGED provAppVars
    \/ initializeMigrationsStart /\ UNCHANGED appVars
    \/ initializeMigrationsStep /\ UNCHANGED appVars
    \/ initializeMigrationsDone /\ UNCHANGED appVars
    \/ initializeMigrationsFail /\ UNCHANGED appVars

SpecProvision == RegistryHarnessInit /\ [][ProvisionNext]_vars

\* Two tenants in service: organization beta has been reactivated, and both
\* schemas hold the hospital rows their seeding wrote (seed.ts:297-327).
IsolationCreds == {c \in BearerCreds : c.email \in {"a@acme", "x@acme", "b@beta", "d@delta"}}

IsolationInit ==
    /\ RegistryInit
    /\ schemaCurrent = [s \in Schemas |-> TRUE]
    /\ imState = "done" /\ imTodo = <<>> /\ ddlCount = Len(SchemaOrder)
    /\ RequestsInit
    /\ idScheme = "generated"
    /\ NoDomainRows
    /\ orgRows = [Organizations EXCEPT !["beta"].isActive = TRUE]
    /\ tenantRows = [s \in Schemas |-> IF s = "org_acme" THEN {"acme"} ELSE {"beta"}]
    /\ startupVariant = "awaited"
    /\ phase = "listening"

IsolationNext ==
    \/ \E r \in Reqs, rt \in TenantRoutes, c \in IsolationCreds : tenantMiddlewareAuth(r, rt, c)
    \/ \E r \in Reqs : tenantMiddlewareLookup(r)
    \/ \E r \in Reqs : tenantMiddlewareLookupThrows(r)
    \/ \E r \in Reqs : tenantMiddlewareTenant(r)
    \/ \E r \in Reqs : tenantMiddlewareEmployee(r)
    \/ \E r \in Reqs : tenantMiddlewareEmployeeThrows(r)
    \/ \E r \in Reqs : createHospital(r)
    \/ \E r \in Reqs : fetchHospitals(r)
    \/ \E s \in Schemas : getTenantClientResolve(s) /\ UNCHANGED appVars
    \/ \E s \in Schemas : getTenantClientReject(s) /\ UNCHANGED appVars

SpecIsolation == IsolationInit /\ [][IsolationNext]_vars

\* ========================================================= domain handlers
\* ---------------------------------------------------------------- DCR
\* A request body's productsDiscussed / comments after trim() || null.
EmptyBody == [productsDiscussed |-> NULL, comments |-> NULL]
Bodies == {EmptyBody,
           [productsDiscussed |-> "p", comments |-> NULL],
           [productsDiscussed |-> NULL, comments |-> "c"]}

\* dcrReport.findFirst({where: {id, employeeId}}).
OwnDcr(id, u) == id \in DOMAIN dcrRows /\ dcrRows[id].employeeId = u.employeeId

\* createDcr, lines 258-334: body validation, then the task lookup filtered
\* on req.user.employeeId.
createDcr(r, e, taskId, body, isDraft) ==
    /\ Arrives(r)
    /\ LET u == AttachedUser(e, DomainSchema) IN
       IF body = EmptyBody
       THEN Send(r, "createDcr", taskId, 400)
       ELSE IF ~(taskId \in DOMAIN taskRows /\ taskRows[taskId].employeeId = u.employeeId)
       THEN Send(r, "createDcr", taskId, 404)
       ELSE Await(r, "createDcrCheck",
                  [op |-> "createDcr", user |-> u, taskId |-> taskId, body |-> body,
                   isDraft |-> isDraft])
    /\ UNCHANGED <<coreVars, outsideDcr, rowIds, taskRows, dcrRows>>

\* Lines 336-351: the existence check, an await of its own.
DcrExistsFor(taskId, u) ==
    \E id \in DOMAIN dcrRows :
        /\ dcrRows[id].taskId = taskId
        /\ dcrRows[id].taskType = "DOCTOR_TASK"
        /\ dcrRows[id].employeeId = u.employeeId

createDcrCheck(r) ==
    /\ hpc[r] = "createDcrCheck"
    /\ IF DcrExistsFor(hreq[r].taskId, hreq[r].user)
       THEN Send(r, "createDcr", hreq[r].taskId, 409)
       ELSE Await(r, "createDcrWrite", hreq[r])
    /\ UNCHANGED <<coreVars, outsideDcr, rowIds, taskRows, dcrRows>>

\* Lines 353-379: dcrReport.create and the 201.
createDcrWrite(r) ==
    /\ hpc[r] = "createDcrWrite"
    /\ rowIds["dcr"] < MaxRows
    /\ rowIds' = [rowIds EXCEPT !["dcr"] = @ + 1]
    /\ dcrRows' = Put(dcrRows, rowIds["dcr"] + 1,
                      [employeeId |-> hreq[r].user.employeeId,
                       taskId |-> hreq[r].taskId,
                       taskType |-> "DOCTOR_TASK",
                       productsDiscussed |-> hreq[r].body.productsDiscussed,
                       comments |-> hreq[r].body.comments,
                       isDraft |-> hreq[r].isDraft])
    /\ Send(r, "createDcr", hreq[r].taskId, 201)
    /\ UNCHANGED <<coreVars, outsideDcr, taskRows>>

\* Lines 381-388: dcrReport.create rejects (the store is unreachable, or it
\* enforces a constraint the handler does not know of) and the catch answers
\* 500.
createDcrWriteThrows(r) ==
    /\ hpc[r] = "createDcrWrite"
    /\ Send(r, "createDcr", hreq[r].taskId, 500)
    /\ UNCHANGED <<coreVars, outsideDcr, rowIds, taskRows, dcrRows>>

\* updateDcr letting a submitted report through its check.
updateDcrAnyState(r, e, dcrId, body, isDraft) ==
    /\ Arrives(r)
    /\ LET u == AttachedUser(e, DomainSchema) IN
       IF ~OwnDcr(dcrId, u)
       THEN Send(r, "updateDcr", dcrId, 404)
       ELSE IF body = EmptyBody
       THEN Send(r, "updateDcr", dcrId, 400)
       ELSE Await(r, "updateDcrWrite",
                  [op |-> "updateDcr", dcrId |-> dcrId, body |-> body, isDraft |-> isDraft,
                   existingDCR |-> [isDraft |-> dcrRows[dcrId].isDraft]])
    /\ UNCHANGED <<coreVars, outsideDcr, rowIds, taskRows, dcrRows>>

\* updateDcr, part_009 lines 20-67: ownership lookup, draft check, body
\* validation.
updateDcr(r, e, dcrId, body, isDraft) ==
    /\ Arrives(r)
    /\ LET u == AttachedUser(e, DomainSchema) IN
       IF ~OwnDcr(dcrId, u)
       THEN Send(r, "updateDcr", dcrId, 404)
       ELSE IF ~dcrRows[dcrId].isDraft
       THEN Send(r, "updateDcr", dcrId, 400)
       ELSE IF body = EmptyBody
       THEN Send(r, "updateDcr", dcrId, 400)
       ELSE Await(r, "updateDcrWrite",
                  [op |-> "updateDcr", dcrId |-> dcrId, body |-> body, isDraft |-> isDraft,
                   existingDCR |-> [isDraft |-> dcrRows[dcrId].isDraft]])
    /\ UNCHANGED <<coreVars, outsideDcr, rowIds, taskRows, dcrRows>>

\* Lines 69-103: dcrReport.update({where: {id}}) in a separate await; it
\* throws when the row is gone, which the catch answers with 500.
updateDcrWrite(r) ==
    /\ hpc[r] = "updateDcrWrite"
    /\ LET id == hreq[r].dcrId IN
       IF id \in DOMAIN dcrRows
       THEN /\ dcrRows' = [dcrRows EXCEPT ![id].productsDiscussed = hreq[r].body.productsDiscussed,
                                          ![id].comments = hreq[r].body.comments,
                                          ![id].isDraft = hreq[r].isDraft]
            /\ Send(r, "updateDcr", id, 200)
       ELSE /\ dcrRows' = dcrRows
            /\ Send(r, "updateDcr", id, 500)
    /\ UNCHANGED <<coreVars, outsideDcr, rowIds, taskRows>>

\* deleteDcr, getDcrDetailsController.ts lines 198-232: ownership lookup and
\* draft check.
deleteDcr(r, e, dcrId) ==
    /\ Arrives(r)
    /\ LET u == AttachedUser(e, DomainSchema) IN
       IF ~OwnDcr(dcrId, u)
       THEN Send(r, "deleteDcr", dcrId, 404)
       ELSE IF ~dcrRows[dcrId].isDraft
       THEN Send(r, "deleteDcr", dcrId, 400)
       ELSE Await(r, "deleteDcrWrite",
                  [op |-> "deleteDcr", dcrId |-> dcrId,
                   existingDCR |-> [isDraft |-> dcrRows[dcrId].isDraft]])
    /\ UNCHANGED <<coreVars, outsideDcr, rowIds, taskRows, dcrRows>>

\* Lines 234-259: dcrReport.delete({where: {id}}), 500 when the row is gone.
deleteDcrWrite(r) ==
    /\ hpc[r] = "deleteDcrWrite"
    /\ LET id == hreq[r].dcrId IN
       IF id \in DOMAIN dcrRows
       THEN /\ dcrRows' = Remove(dcrRows, id)
            /\ Send(r, "deleteDcr", id, 200)
       ELSE /\ dcrRows' = dcrRows
            /\ Send(r, "deleteDcr", id, 500)
    /\ UNCHANGED <<coreVars, outsideDcr, rowIds, taskRows>>

\* The process is serving after an awaited startup.
ServingInit ==
    /\ RegistryInit
    /\ schemaCurrent = [s \in Schemas |-> TRUE]
    /\ imState = "done" /\ imTodo = <<>> /\ ddlCount = Len(SchemaOrder)
    /\ RequestsInit
    /\ orgRows = Organizations
    /\ tenantRows = [s \in Schemas |-> {}]
    /\ startupVariant = "awaited"
    /\ phase = "listening"

\* a@acme has created a task with createTask (employeeId is req.user.id).
\* Either no report exists yet, or a@acme has saved a draft for the task,
\* which createDcr allows when the task is found under req.user.employeeId.
DraftDcr ==
    [employeeId |-> UserRowId("a@acme"), taskId |-> 1, taskType |-> "DOCTOR_TASK",
     productsDiscussed |-> "p", comments |-> NULL, isDraft |-> TRUE]

DcrInit ==
    /\ ServingInit
    /\ NoSampleRows /\ NoAssociationRows /\ NoOrderRows
    /\ idScheme \in {"shared", "generated"}
    /\ OnePlannerOneTask
    /\ \/ /\ dcrRows = NoRows
          /\ rowIds = [tb \in Tables |-> IF tb \in {"planner", "task"} THEN 1 ELSE 0]
       \/ /\ idScheme = "shared"
          /\ dcrRows = Put(NoRows, 1, DraftDcr)
          /\ rowIds = [tb \in Tables |-> IF tb \in {"planner", "task", "dcr"} THEN 1 ELSE 0]

DcrNext ==
    \/ \E r \in Reqs, e \in Actors, taskId \in RowIds, body \in Bodies, isDraft \in BOOLEAN :
          createDcr(r, e, taskId, body, isDraft)
    \/ \E r \in Reqs : createDcrCheck(r)
    \/ \E r \in Reqs : createDcrWrite(r)
    \/ \E r \in Reqs : createDcrWriteThrows(r)
    \/ \E r \in Reqs, e \in Actors, dcrId \in RowIds, body \in Bodies, isDraft \in BOOLEAN :
          updateDcr(r, e, dcrId, body, isDraft)
    \/ \E r \in Reqs : updateDcrWrite(r)
    \/ \E r \in Reqs, e \in Actors, dcrId \in RowIds : deleteDcr(r, e, dcrId)
    \/ \E r \in Reqs : deleteDcrWrite(r)

SpecDcr == DcrInit /\ [][DcrNext]_vars

\* ------------------------------------------------------------- samples
\* createDistribution works on the drug and the gift inventory with the same
\* code; the model keeps the drug inventory.  One inventory row exists, with
\* MaxQty units in stock; a request names it or a row that does not exist.
Doctors == {"doc1"}
InventoryIds == {1, 2}
DrugItems == [inventoryId : InventoryIds, quantity : 1..MaxQty]
DrugItemLists == {<<i>> : i \in DrugItems} \cup {<<i, j>> : i, j \in DrugItems}

\* An open transaction of request q holds the row lock of every inventory
\* row it has updated, until it commits or rolls back.
HoldsLock(q, inventoryId) ==
    hpc[q] \in {"distributionItem", "distributionItemWrite", "distributionCommit"}
       /\ inventoryId \in DOMAIN hreq[q].updated

\* tx.userDrugInventory.findUnique inside the transaction of r: its own
\* update if it made one, else the committed row (READ COMMITTED, the
\* store's default: no isolationLevel is passed to $transaction).
InventoryRead(r, inventoryId) ==
    IF inventoryId \in DOMAIN hreq[r].updated THEN hreq[r].updated[inventoryId]
    ELSE invRows[inventoryId]

\* Lines 177-222: validation and the customer lookup; lines 225-234: the
\* transaction opens and creates the distribution row.
createDistribution(r, e, customerId, drugItems) ==
    /\ Arrives(r)
    /\ IF drugItems = <<>>
       THEN Send(r, "createDistribution", NONE, 400)
       ELSE IF customerId \notin Doctors
       THEN Send(r, "createDistribution", NONE, 404)
       ELSE Await(r, "distributionItem",
                  [op |-> "createDistribution",
                   employeeId |-> AttachedUser(e, DomainSchema).employeeId,
                   drugItems |-> drugItems, todo |-> drugItems, updated |-> NoRows,
                   inventory |-> NONE])
    /\ UNCHANGED <<coreVars, outsideSamples, rowIds, invRows, distRows>>

\* Lines 237-253: the next item's inventory row is read and checked; a
\* missing row or too little stock throws, the transaction rolls back and
\* the catch (329-336) answers 500.
createDistributionItem(r) ==
    /\ hpc[r] = "distributionItem" /\ hreq[r].todo # <<>>
    /\ LET item == Head(hreq[r].todo) IN
       IF item.inventoryId \notin DOMAIN invRows
       THEN Send(r, "createDistribution", NONE, 500)
       ELSE IF InventoryRead(r, item.inventoryId) < item.quantity
       THEN Send(r, "createDistribution", NONE, 500)
       ELSE Await(r, "distributionItemWrite",
                  [hreq[r] EXCEPT !.inventory = InventoryRead(r, item.inventoryId)])
    /\ UNCHANGED <<coreVars, outsideSamples, rowIds, invRows, distRows>>

\* Lines 255-272: the item row is created and the inventory row is updated to
\* inventory.quantity - quantity, the value computed from the earlier read.
\* The update waits while another open transaction holds the row's lock.
createDistributionItemWrite(r) ==
    /\ hpc[r] = "distributionItemWrite"
    /\ LET item == Head(hreq[r].todo) IN
       /\ \A q \in Reqs \ {r} : ~HoldsLock(q, item.inventoryId)
       /\ Await(r, "distributionItem",
                [hreq[r] EXCEPT !.todo = Tail(@),
                                !.updated = Put(@, item.inventoryId,
                                                hreq[r].inventory - item.quantity)])
    /\ UNCHANGED <<coreVars, outsideSamples, rowIds, invRows, distRows>>

\* Lines 311-327: the callback returns, the transaction commits (the
\* distribution row, its items and the inventory updates become visible
\* together) and 201 is sent.
createDistributionCommit(r) ==
    /\ hpc[r] = "distributionItem" /\ hreq[r].todo = <<>>
    /\ rowIds["dist"] < MaxRows
    /\ rowIds' = [rowIds EXCEPT !["dist"] = @ + 1]
    /\ invRows' = [i \in DOMAIN invRows |->
                     IF i \in DOMAIN hreq[r].updated THEN hreq[r].updated[i] ELSE invRows[i]]
    /\ distRows' = Put(distRows, rowIds["dist"] + 1,
                       [employeeId |-> hreq[r].employeeId, drugItems |-> hreq[r].drugItems])
    /\ Send(r, "createDistribution", rowIds["dist"] + 1, 201)
    /\ UNCHANGED <<coreVars, outsideSamples>>

SamplesInit ==
    /\ ServingInit
    /\ idScheme = "generated"
    /\ rowIds = [tb \in Tables |-> 0]
    /\ NoTaskRows /\ NoDcrRows /\ NoAssociationRows /\ NoOrderRows
    /\ invRows = Put(NoRows, 1, MaxQty)
    /\ distRows = NoRows

SamplesNext ==
    \/ \E r \in Reqs, e \in Actors, customerId \in Doctors \cup {"nobody"},
          drugItems \in DrugItemLists \cup {<<>>} :
             createDistribution(r, e, customerId, drugItems)
    \/ \E r \in Reqs : createDistributionItem(r)
    \/ \E r \in Reqs : createDistributionItemWrite(r)
    \/ \E r \in Reqs : createDistributionCommit(r)

SpecSamples == SamplesInit /\ [][SamplesNext]_vars

\* -------------------------------------------- doctor-hospital associations
\* One doctor and MaxRows hospitals exist; the table has the compound unique
\* key doctorId_hospitalId the handlers look rows up by.
HospitalIds == 1..MaxRows
\* The isPrimary field of an update body: true, false, or not sent.
PrimaryInputs == {"true", "false", "undefined"}

AssociationOf(doctorId, hospitalId) ==
    {id \in DOMAIN assocRows :
        assocRows[id].doctorId = doctorId /\ assocRows[id].hospitalId = hospitalId}

\* updateMany({where: {doctorId, isPrimary: true, NOT: {id: except}},
\* data: {isPrimary: false}}) applied to table rows.
UnsetPrimary(rows, doctorId, except) ==
    [id \in DOMAIN rows |->
        IF rows[id].doctorId = doctorId /\ rows[id].isPrimary /\ id # except
        THEN [rows[id] EXCEPT !.isPrimary = FALSE]
        ELSE rows[id]]

\* createDoctorHospitalAssociation, lines 555-595: the existence check (409)
\* and the doctor and hospital lookups.
createDoctorHospitalAssociation(r, hospitalId, isPrimary) ==
    /\ Arrives(r)
    /\ IF AssociationOf("doc1", hospitalId) # {}
       THEN Send(r, "createAssociation", hospitalId, 409)
       ELSE Await(r, IF isPrimary THEN "createAssociationUnset" ELSE "createAssociationWrite",
                  [op |-> "createAssociation", doctorId |-> "doc1", hospitalId |-> hospitalId,
                   isPrimary |-> isPrimary])
    /\ UNCHANGED <<coreVars, outsideAssociations, rowIds, assocRows>>

\* Lines 597-608: with isPrimary, the doctor's other primary associations
\* are unset, in an await of its own.
createDoctorHospitalAssociationUnset(r) ==
    /\ hpc[r] = "createAssociationUnset"
    /\ assocRows' = UnsetPrimary(assocRows, hreq[r].doctorId, NONE)
    /\ Await(r, "createAssociationWrite", hreq[r])
    /\ UNCHANGED <<coreVars, outsideAssociations, rowIds>>

\* Lines 610-653: the row is created (201); the unique key rejects a second
\* row for the same doctor and hospital and the catch answers 500.
createDoctorHospitalAssociationWrite(r) ==
    /\ hpc[r] = "createAssociationWrite"
    /\ IF AssociationOf(hreq[r].doctorId, hreq[r].hospitalId) # {}
       THEN /\ Send(r, "createAssociation", hreq[r].hospitalId, 500)
            /\ UNCHANGED <<rowIds, assocRows>>
       ELSE /\ rowIds["assoc"] < MaxRows
            /\ rowIds' = [rowIds EXCEPT !["assoc"] = @ + 1]
            /\ assocRows' = Put(assocRows, rowIds["assoc"] + 1,
                                [doctorId |-> hreq[r].doctorId,
                                 hospitalId |-> hreq[r].hospitalId,
                                 isPrimary |-> hreq[r].isPrimary])
            /\ Send(r, "createAssociation", hreq[r].hospitalId, 201)
    /\ UNCHANGED <<coreVars, outsideAssociations>>

\* updateDoctorHospitalAssociation, lines 741-770: the row is looked up by id.
updateDoctorHospitalAssociation(r, associationId, isPrimary) ==
    /\ Arrives(r)
    /\ IF associationId \notin DOMAIN assocRows
       THEN Send(r, "updateAssociation", associationId, 404)
       ELSE Await(r, IF isPrimary = "true" THEN "updateAssociationUnset"
                     ELSE "updateAssociationWrite",
                  [op |-> "updateAssociation", associationId |-> associationId,
                   doctorId |-> assocRows[associationId].doctorId, isPrimary |-> isPrimary])
    /\ UNCHANGED <<coreVars, outsideAssociations, rowIds, assocRows>>

\* Lines 772-784: with isPrimary === true, the doctor's other primary
\* associations are unset.
updateDoctorHospitalAssociationUnset(r) ==
    /\ hpc[r] = "updateAssociationUnset"
    /\ assocRows' = UnsetPrimary(assocRows, hreq[r].doctorId, hreq[r].associationId)
    /\ Await(r, "updateAssociationWrite", hreq[r])
    /\ UNCHANGED <<coreVars, outsideAssociations, rowIds>>

\* Lines 786-830: the row is updated (isPrimary as sent, untouched when not
\* sent); the update throws when the row is gone and the catch answers 500.
updateDoctorHospitalAssociationWrite(r) ==
    /\ hpc[r] = "updateAssociationWrite"
    /\ LET id == hreq[r].associationId IN
       IF id \in DOMAIN assocRows
       THEN /\ assocRows' = IF hreq[r].isPrimary = "undefined" THEN assocRows
                            ELSE [assocRows EXCEPT ![id].isPrimary = (hreq[r].isPrimary = "true")]
            /\ Send(r, "updateAssociation", id, 200)
       ELSE /\ assocRows' = assocRows
            /\ Send(r, "updateAssociation", id, 500)
    /\ UNCHANGED <<coreVars, outsideAssociations, rowIds>>

\* deleteDoctorHospitalAssociation, lines 833-861: the row is looked up by id.
deleteDoctorHospitalAssociation(r, associationId) ==
    /\ Arrives(r)
    /\ IF associationId \notin DOMAIN assocRows
       THEN Send(r, "deleteAssociation", associationId, 404)
       ELSE Await(r, "deleteAssociationWrite",
                  [op |-> "deleteAssociation", associationId |-> associationId])
    /\ UNCHANGED <<coreVars, outsideAssociations, rowIds, assocRows>>

\* Lines 863-880: the row is deleted; 500 when it is gone already.
deleteDoctorHospitalAssociationWrite(r) ==
    /\ hpc[r] = "deleteAssociationWrite"
    /\ LET id == hreq[r].associationId IN
       IF id \in DOMAIN assocRows
       THEN /\ assocRows' = Remove(assocRows, id)
            /\ Send(r, "deleteAssociation", id, 200)
       ELSE /\ assocRows' = assocRows
            /\ Send(r, "deleteAssociation", id, 500)
    /\ UNCHANGED <<coreVars, outsideAssociations, rowIds>>

\* setPrimaryHospital, lines 884-919: the row is looked up by its key.
setPrimaryHospital(r, hospitalId) ==
    /\ Arrives(r)
    /\ IF AssociationOf("doc1", hospitalId) = {}
       THEN Send(r, "setPrimaryHospital", hospitalId, 404)
       ELSE Await(r, "setPrimaryHospitalWrite",
                  [op |-> "setPrimaryHospital", doctorId |-> "doc1", hospitalId |-> hospitalId])
    /\ UNCHANGED <<coreVars, outsideAssociations, rowIds, assocRows>>

\* Lines 921-985: one transaction unsets every primary association of the
\* doctor and sets the named one; it rolls back (500) when the row is gone.
setPrimaryHospitalWrite(r) ==
    /\ hpc[r] = "setPrimaryHospitalWrite"
    /\ LET ids == AssociationOf(hreq[r].doctorId, hreq[r].hospitalId) IN
       IF ids # {}
       THEN /\ assocRows' = [id \in DOMAIN assocRows |->
                               IF id \in ids
                               THEN [assocRows[id] EXCEPT !.isPrimary = TRUE]
                               ELSE UnsetPrimary(assocRows, hreq[r].doctorId, NONE)[id]]
            /\ Send(r, "setPrimaryHospital", hreq[r].hospitalId, 200)
       ELSE /\ assocRows' = assocRows
            /\ Send(r, "setPrimaryHospital", hreq[r].hospitalId, 500)
    /\ UNCHANGED <<coreVars, outsideAssociations, rowIds>>

\* The doctor has one association, not primary, when the requests arrive.
AssociationsInit ==
    /\ ServingInit
    /\ idScheme = "generated"
    /\ NoTaskRows /\ NoDcrRows /\ NoSampleRows /\ NoOrderRows
    /\ assocRows = Put(NoRows, 1, [doctorId |-> "doc1", hospitalId |-> 1, isPrimary |-> FALSE])
    /\ rowIds = [tb \in Tables |-> IF tb = "assoc" THEN 1 ELSE 0]

AssociationsNext ==
    \/ \E r \in Reqs, hospitalId \in HospitalIds, isPrimary \in BOOLEAN :
          createDoctorHospitalAssociation(r, hospitalId, isPrimary)
    \/ \E r \in Reqs : createDoctorHospitalAssociationUnset(r)
    \/ \E r \in Reqs : createDoctorHospitalAssociationWrite(r)
    \/ \E r \in Reqs, associationId \in RowIds, isPrimary \in PrimaryInputs :
          updateDoctorHospitalAssociation(r, associationId, isPrimary)
    \/ \E r \in Reqs : updateDoctorHospitalAssociationUnset(r)
    \/ \E r \in Reqs : updateDoctorHospitalAssociationWrite(r)
    \/ \E r \in Reqs, associationId \in RowIds : deleteDoctorHospitalAssociation(r, associationId)
    \/ \E r \in Reqs : deleteDoctorHospitalAssociationWrite(r)
    \/ \E r \in Reqs, hospitalId \in HospitalIds : setPrimaryHospital(r, hospitalId)
    \/ \E r \in Reqs : setPrimaryHospitalWrite(r)

SpecAssociations == AssociationsInit /\ [][AssociationsNext]_vars

\* ---------------------------------------------------- planners and tasks
\* The task handlers treat doctor, chemist and tour-plan tasks with the same
\* code over three tables; the model keeps the doctor task table.
ApprovalInputs == {"PENDING_APPROVAL", "APPROVED"}
ActiveTasksOf(plannerId) ==
    {id \in DOMAIN taskRows : taskRows[id].plannerId = plannerId /\ taskRows[id].isActive}

\* createTaskPlannerController, part_002: 401 without req.user.id, else the
\* planner row is created.
createTaskPlannerController(r, e) ==
    /\ Arrives(r)
    /\ LET u == AttachedUser(e, DomainSchema) IN
       IF u.id = NULL
       THEN /\ Send(r, "createTaskPlanner", NONE, 401)
            /\ UNCHANGED <<rowIds, plannerRows>>
       ELSE /\ rowIds["planner"] < MaxRows
            /\ rowIds' = [rowIds EXCEPT !["planner"] = @ + 1]
            /\ plannerRows' = Put(plannerRows, rowIds["planner"] + 1, NewPlanner(u.id))
            /\ Send(r, "createTaskPlanner", rowIds["planner"] + 1, 200)
    /\ UNCHANGED <<coreVars, outsideTasks, taskRows>>

\* createTaskController, deleteTasksController.ts lines 180-249: 401 without
\* req.user.id; the planner is looked up by id and only its existence is
\* tested (isActive is selected and never read).
createTaskController(r, e, taskPlannerId) ==
    /\ Arrives(r)
    /\ LET u == AttachedUser(e, DomainSchema) IN
       IF u.id = NULL
       THEN Send(r, "createTask", taskPlannerId, 401)
       ELSE IF taskPlannerId \notin DOMAIN plannerRows
       THEN Send(r, "createTask", taskPlannerId, 400)
       ELSE Await(r, "createTaskWrite",
                  [op |-> "createTask", employeeId |-> u.id, plannerId |-> taskPlannerId])
    /\ UNCHANGED <<coreVars, outsideTasks, rowIds, plannerRows, taskRows>>

\* Lines 251-340: the task row is created with employeeId: req.user.id.
createTaskControllerWrite(r) ==
    /\ hpc[r] = "createTaskWrite"
    /\ rowIds["task"] < MaxRows
    /\ rowIds' = [rowIds EXCEPT !["task"] = @ + 1]
    /\ taskRows' = Put(taskRows, rowIds["task"] + 1,
                       NewTask(hreq[r].plannerId, hreq[r].employeeId))
    /\ Send(r, "createTask", rowIds["task"] + 1, 201)
    /\ UNCHANGED <<coreVars, outsideTasks, plannerRows>>

\* deleteTaskPlannerController, part_003 lines 5-76: the active planner is
\* looked up (404) and its owner compared with req.user.id (403).
deleteTaskPlannerController(r, e, taskPlannerId) ==
    /\ Arrives(r)
    /\ LET u == AttachedUser(e, DomainSchema) IN
       IF u.id = NULL
       THEN Send(r, "deleteTaskPlanner", taskPlannerId, 401)
       ELSE IF ~(taskPlannerId \in DOMAIN plannerRows /\ plannerRows[taskPlannerId].isActive)
       THEN Send(r, "deleteTaskPlanner", taskPlannerId, 404)
       ELSE IF plannerRows[taskPlannerId].employeeId # u.id
       THEN Send(r, "deleteTaskPlanner", taskPlannerId, 403)
       ELSE Await(r, "deleteTaskPlannerTx",
                  [op |-> "deleteTaskPlanner", plannerId |-> taskPlannerId])
    /\ UNCHANGED <<coreVars, outsideTasks, rowIds, plannerRows, taskRows>>

\* Lines 78-133: one transaction sets isActive = false on the planner's
\* active tasks and on the planner.
deleteTaskPlannerControllerTx(r) ==
    /\ hpc[r] = "deleteTaskPlannerTx"
    /\ LET p == hreq[r].plannerId IN
       /\ taskRows' = [id \in DOMAIN taskRows |->
                         IF id \in ActiveTasksOf(p)
                         THEN [taskRows[id] EXCEPT !.isActive = FALSE]
                         ELSE taskRows[id]]
       /\ plannerRows' = [plannerRows EXCEPT ![p].isActive = FALSE]
       /\ Send(r, "deleteTaskPlanner", p, 200)
    /\ UNCHANGED <<coreVars, outsideTasks, rowIds>>

\* deleteTaskController, deleteTasksController.ts lines 5-61: the active task
\* is looked up (404) and its owner compared with req.user.id (403).
deleteTaskController(r, e, taskId) ==
    /\ Arrives(r)
    /\ LET u == AttachedUser(e, DomainSchema) IN
       IF u.id = NULL
       THEN Send(r, "deleteTask", taskId, 401)
       ELSE IF ~(taskId \in DOMAIN taskRows /\ taskRows[taskId].isActive)
       THEN Send(r, "deleteTask", taskId, 404)
       ELSE IF taskRows[taskId].employeeId # u.id
       THEN Send(r, "deleteTask", taskId, 403)
       ELSE Await(r, "deleteTaskWrite", [op |-> "deleteTask", taskId |-> taskId])
    /\ UNCHANGED <<coreVars, outsideTasks, rowIds, plannerRows, taskRows>>

\* Lines 63-73: the task is soft deleted.
deleteTaskControllerWrite(r) ==
    /\ hpc[r] = "deleteTaskWrite"
    /\ taskRows' = [taskRows EXCEPT ![hreq[r].taskId].isActive = FALSE]
    /\ Send(r, "deleteTask", hreq[r].taskId, 200)
    /\ UNCHANGED <<coreVars, outsideTasks, rowIds, plannerRows>>

\* updateTaskPlannerStatusController, part_003 lines 158-261: the active
\* planner is looked up together with the count of its active tasks (404),
\* its owner is compared (403), and PENDING_APPROVAL with a count of zero is
\* answered 400.
updateTaskPlannerStatusController(r, e, taskPlannerId, approvalStatus) ==
    /\ Arrives(r)
    /\ LET u == AttachedUser(e, DomainSchema) IN
       IF u.id = NULL
       THEN Send(r, "updateTaskPlannerStatus", taskPlannerId, 401)
       ELSE IF ~(taskPlannerId \in DOMAIN plannerRows /\ plannerRows[taskPlannerId].isActive)
       THEN Send(r, "updateTaskPlannerStatus", taskPlannerId, 404)
       ELSE IF plannerRows[taskPlannerId].employeeId # u.id
       THEN Send(r, "updateTaskPlannerStatus", taskPlannerId, 403)
       ELSE IF approvalStatus = "PENDING_APPROVAL" /\ ActiveTasksOf(taskPlannerId) = {}
       THEN Send(r, "updateTaskPlannerStatus", taskPlannerId, 400)
       ELSE Await(r, "updateTaskPlannerStatusTx",
                  [op |-> "updateTaskPlannerStatus", plannerId |-> taskPlannerId,
                   approvalStatus |-> approvalStatus])
    /\ UNCHANGED <<coreVars, outsideTasks, rowIds, plannerRows, taskRows>>

\* Lines 263-332: one transaction writes the new approvalStatus to the
\* planner's active tasks and to the planner.
updateTaskPlannerStatusControllerTx(r) ==
    /\ hpc[r] = "updateTaskPlannerStatusTx"
    /\ LET p == hreq[r].plannerId IN
       /\ taskRows' = [id \in DOMAIN taskRows |->
                         IF id \in ActiveTasksOf(p)
                         THEN [taskRows[id] EXCEPT !.approvalStatus = hreq[r].approvalStatus]
                         ELSE taskRows[id]]
       /\ plannerRows' = [plannerRows EXCEPT ![p].approvalStatus = hreq[r].approvalStatus]
       /\ Send(r, "updateTaskPlannerStatus", p, 200)
    /\ UNCHANGED <<coreVars, outsideTasks, rowIds>>

PlannerInit ==
    /\ ServingInit
    /\ idScheme = "generated"
    /\ OnePlannerOneTask
    /\ rowIds = [tb \in Tables |-> IF tb \in {"planner", "task"} THEN 1 ELSE 0]
    /\ NoDcrRows /\ NoSampleRows /\ NoAssociationRows /\ NoOrderRows

PlannerNext ==
    \/ \E r \in Reqs, e \in Actors : createTaskPlannerController(r, e)
    \/ \E r \in Reqs, e \in Actors, taskPlannerId \in RowIds :
          createTaskController(r, e, taskPlannerId)
    \/ \E r \in Reqs : createTaskControllerWrite(r)
    \/ \E r \in Reqs, e \in Actors, taskPlannerId \in RowIds :
          deleteTaskPlannerController(r, e, taskPlannerId)
    \/ \E r \in Reqs : deleteTaskPlannerControllerTx(r)
    \/ \E r \in Reqs, e \in Actors, taskId \in RowIds : deleteTaskController(r, e, taskId)
    \/ \E r \in Reqs : deleteTaskControllerWrite(r)
    \/ \E r \in Reqs, e \in Actors, taskPlannerId \in RowIds, approvalStatus \in ApprovalInputs :
          updateTaskPlannerStatusController(r, e, taskPlannerId, approvalStatus)
    \/ \E r \in Reqs : updateTaskPlannerStatusControllerTx(r)

SpecPlanner == PlannerInit /\ [][PlannerNext]_vars

\* ------------------------------------------------- from a task to its DCR
CompletionInputs == {"PENDING", "COMPLETED", "RESCHEDULED", "DONE"}
ReportableStatuses == {"COMPLETED", "RESCHEDULED"}

\* updateTaskCompletionStatusController, deleteTasksController.ts lines
\* 355-421: 401 without req.user.id, 400 for an unknown status; the active
\* task is looked up (404) and its owner compared with req.user.id (403).
updateTaskCompletionStatusController(r, e, taskId, completionStatus) ==
    /\ Arrives(r)
    /\ LET u == AttachedUser(e, DomainSchema) IN
       IF u.id = NULL
       THEN Send(r, "updateTaskCompletionStatus", taskId, 401)
       ELSE IF completionStatus \notin {"PENDING", "COMPLETED", "RESCHEDULED"}
       THEN Send(r, "updateTaskCompletionStatus", taskId, 400)
       ELSE IF ~(taskId \in DOMAIN taskRows /\ taskRows[taskId].isActive)
       THEN Send(r, "updateTaskCompletionStatus", taskId, 404)
       ELSE IF taskRows[taskId].employeeId # u.id
       THEN Send(r, "updateTaskCompletionStatus", taskId, 403)
       ELSE Await(r, "updateTaskCompletionStatusWrite",
                  [op |-> "updateTaskCompletionStatus", taskId |-> taskId,
                   completionStatus |-> completionStatus])
    /\ UNCHANGED <<coreVars, outsideTasks, rowIds, plannerRows, taskRows>>

\* Lines 431-460: doctorTask.update writes the completion status.
updateTaskCompletionStatusControllerWrite(r) ==
    /\ hpc[r] = "updateTaskCompletionStatusWrite"
    /\ taskRows' = [taskRows EXCEPT ![hreq[r].taskId].completionStatus =
                                        hreq[r].completionStatus]
    /\ Send(r, "updateTaskCompletionStatus", hreq[r].taskId, 200)
    /\ UNCHANGED <<coreVars, outsideTasks, rowIds, plannerRows>>

\* getTasksForDcr, createDcrController.ts lines 29-56: the task ids of the
\* DCR reports whose employeeId is req.user.employeeId are collected.
getTasksForDcr(r, e) ==
    /\ Arrives(r)
    /\ LET u == AttachedUser(e, DomainSchema) IN
       Await(r, "getTasksForDcrTasks",
             [op |-> "getTasksForDcr", user |-> u,
              existingDCRTaskIds |->
                  {dcrRows[id].taskId : id \in {i \in DOMAIN dcrRows :
                        /\ dcrRows[i].employeeId = u.employeeId
                        /\ dcrRows[i].taskType = "DOCTOR_TASK"}}])
    /\ UNCHANGED <<coreVars, outsideDcr, rowIds, taskRows, dcrRows>>

\* Lines 68-81 and 236-243: the doctor tasks whose employeeId is
\* req.user.employeeId, that are COMPLETED or RESCHEDULED and have none of
\* the collected ids, are answered with 200.
getTasksForDcrTasks(r) ==
    /\ hpc[r] = "getTasksForDcrTasks"
    /\ Send(r, "getTasksForDcr",
            {id \in DOMAIN taskRows :
                /\ taskRows[id].employeeId = hreq[r].user.employeeId
                /\ taskRows[id].completionStatus \in ReportableStatuses
                /\ id \notin hreq[r].existingDCRTaskIds},
            200)
    /\ UNCHANGED <<coreVars, outsideDcr, rowIds, taskRows, dcrRows>>

\* a@acme has created planner 1 and task 1 in it; the task is pending or has
\* been marked COMPLETED or RESCHEDULED by a@acme.
TaskDcrInit ==
    /\ ServingInit
    /\ idScheme \in {"shared", "generated"}
    /\ plannerRows = Put(NoRows, 1, NewPlanner(EmployeeRowId(DomainSchema, "a@acme")))
    /\ \E completionStatus \in {"PENDING"} \cup ReportableStatuses :
          taskRows = Put(NoRows, 1,
                         [NewTask(1, EmployeeRowId(DomainSchema, "a@acme"))
                             EXCEPT !.completionStatus = completionStatus])
    /\ rowIds = [tb \in Tables |-> IF tb \in {"planner", "task"} THEN 1 ELSE 0]
    /\ NoDcrRows /\ NoSampleRows /\ NoAssociationRows /\ NoOrderRows

TaskDcrNext ==
    \/ \E r \in Reqs, e \in Actors, taskPlannerId \in RowIds :
          createTaskController(r, e, taskPlannerId)
    \/ \E r \in Reqs : createTaskControllerWrite(r)
    \/ \E r \in Reqs, e \in Actors, taskId \in RowIds, completionStatus \in CompletionInputs :
          updateTaskCompletionStatusController(r, e, taskId, completionStatus)
    \/ \E r \in Reqs : updateTaskCompletionStatusControllerWrite(r)
    \/ \E r \in Reqs, e \in Actors : getTasksForDcr(r, e)
    \/ \E r \in Reqs : getTasksForDcrTasks(r)
    \/ \E r \in Reqs, e \in Actors, taskId \in RowIds, body \in Bodies, isDraft \in BOOLEAN :
          createDcr(r, e, taskId, body, isDraft)
    \/ \E r \in Reqs : createDcrCheck(r)
    \/ \E r \in Reqs : createDcrWrite(r)
    \/ \E r \in Reqs : createDcrWriteThrows(r)

SpecTaskDcr == TaskDcrInit /\ [][TaskDcrNext]_vars

\* ----------------------------------------------------------------- orders
\* The chemist and drug tables are only read by the order handlers, so their
\* rows are fixed and the reads of them are part of the step that follows the
\* order lookup.  drugA has a price, drugB has none.
Chemists == {"chem1"}
DrugPrice == [drugA |-> 2, drugB |-> 0]
OrderActions == {"confirm", "save"}

\* req.body.items: drugA at the drug's price, drugA and drugB with a price of
\* their own for drugA, the same drug twice, and no item at all.  A unitPrice
\* of 0 is what `item.unitPrice ? ... : ...` takes for an absent one.
OrderItemLists ==
    {<<>>,
     <<[drugId |-> "drugA", quantity |-> 1, unitPrice |-> 0]>>,
     <<[drugId |-> "drugA", quantity |-> MaxQty, unitPrice |-> 3],
       [drugId |-> "drugB", quantity |-> 1, unitPrice |-> 0]>>,
     <<[drugId |-> "drugA", quantity |-> 1, unitPrice |-> 0],
       [drugId |-> "drugA", quantity |-> 1, unitPrice |-> 0]>>}
\* req.body: every item list for chem1 with either action, and one body for a
\* chemist that does not exist.
OrderBodies ==
    [chemistId : Chemists, items : OrderItemLists, action : OrderActions]
        \cup [chemistId : {"chem0"}, items : {l \in OrderItemLists : Len(l) = 1},
              action : {"save"}]

\* validatedItems, part_005 lines 228-244 and part_006 lines 172-188: the
\* price is the item's own or else the drug's, the subtotal their product.
ValidatedItem(item) ==
    LET unitPrice == IF item.unitPrice # 0 THEN item.unitPrice ELSE DrugPrice[item.drugId] IN
    [drugId |-> item.drugId, quantity |-> item.quantity, unitPrice |-> unitPrice,
     subtotal |-> item.quantity * unitPrice]
ValidatedItems(items) == [i \in DOMAIN items |-> ValidatedItem(items[i])]

RECURSIVE CalculatedTotal(_)
\* calculatedTotal: the sum of the subtotals.
CalculatedTotal(validatedItems) ==
    IF validatedItems = <<>> THEN 0
    ELSE Head(validatedItems).subtotal + CalculatedTotal(Tail(validatedItems))

\* drug.findMany({id: {in: drugIds}}) returns each drug once, so a list that
\* names a drug twice fails `drugs.length !== drugIds.length`.
DrugsFound(items) == {items[i].drugId : i \in DOMAIN items} \cap DOMAIN DrugPrice
OrderStatusOf(action) == IF action = "confirm" THEN "CONFIRMED" ELSE "DRAFT"

\* The checks of the body that createOrder and updateOrder share: items are
\* required, the chemist must exist, and every drug must be found.
OrderBodyPasses(orderData) ==
    /\ orderData.items # <<>>
    /\ orderData.chemistId \in Chemists
    /\ Cardinality(DrugsFound(orderData.items)) = Len(orderData.items)
\* The status a body that does not pass is answered with: 400 for missing
\* items, 404 for an unknown chemist, 400 for unknown or repeated drugs.
OrderBodyFailure(orderData) ==
    IF orderData.items = <<>> THEN 400
    ELSE IF orderData.chemistId \notin Chemists THEN 404
    ELSE 400

\* The row and the items a valid body turns into.
OrderWrite(orderData) ==
    [chemistId |-> orderData.chemistId,
     totalAmount |-> CalculatedTotal(ValidatedItems(orderData.items)),
     status |-> OrderStatusOf(orderData.action),
     items |-> ValidatedItems(orderData.items)]

\* createOrder, part_005 lines 167-262: the body is validated.
createOrder(r, e, orderData) ==
    /\ Arrives(r)
    /\ IF ~OrderBodyPasses(orderData)
       THEN Send(r, "createOrder", NONE, OrderBodyFailure(orderData))
       ELSE Await(r, "createOrderTx",
                  [op |-> "createOrder", user |-> AttachedUser(e, DomainSchema),
                   write |-> OrderWrite(orderData)])
    /\ UNCHANGED <<coreVars, outsideOrders, rowIds, orderRows, orderItemRows>>

\* Lines 264-345: one transaction creates the order row, with createdById
\* req.user.employeeId, and its items; the order is then read back for the
\* 201 response, which changes no row.
createOrderTx(r) ==
    /\ hpc[r] = "createOrderTx"
    /\ rowIds["order"] < MaxRows
    /\ LET id == rowIds["order"] + 1
           w == hreq[r].write IN
       /\ rowIds' = [rowIds EXCEPT !["order"] = id]
       /\ orderRows' = Put(orderRows, id,
                           [createdById |-> hreq[r].user.employeeId, chemistId |-> w.chemistId,
                            totalAmount |-> w.totalAmount, status |-> w.status])
       /\ orderItemRows' = Put(orderItemRows, id, w.items)
       /\ Send(r, "createOrder", id, 201)
    /\ UNCHANGED <<coreVars, outsideOrders>>

\* A statement of the transaction throws: it is rolled back and the catch
\* block answers 500.
createOrderTxThrows(r) ==
    /\ hpc[r] = "createOrderTx"
    /\ Send(r, "createOrder", NONE, 500)
    /\ UNCHANGED <<coreVars, outsideOrders, rowIds, orderRows, orderItemRows>>

\* Stored statuses with which updateOrder goes on, part_006 line 116.
EditableStatuses == {"DRAFT", "PENDING"}
OwnOrder(id, u) == id \in DOMAIN orderRows /\ orderRows[id].createdById = u.employeeId

updateOrderAnyStatus(r, e, orderId, orderData) ==
    /\ Arrives(r)
    /\ LET u == AttachedUser(e, DomainSchema) IN
       IF ~OwnOrder(orderId, u)
       THEN Send(r, "updateOrder", orderId, 404)
       ELSE IF ~OrderBodyPasses(orderData)
       THEN Send(r, "updateOrder", orderId, OrderBodyFailure(orderData))
       ELSE Await(r, "updateOrderTx",
                  [op |-> "updateOrder", orderId |-> orderId, user |-> u,
                   existingOrder |-> orderRows[orderId], write |-> OrderWrite(orderData)])
    /\ UNCHANGED <<coreVars, outsideOrders, rowIds, orderRows, orderItemRows>>

\* updateOrder, part_006 lines 86-205: the order is looked up by id and
\* createdById = req.user.employeeId (404), its status must be DRAFT or
\* PENDING (400), and the body is validated.
updateOrder(r, e, orderId, orderData) ==
    /\ Arrives(r)
    /\ LET u == AttachedUser(e, DomainSchema) IN
       IF ~OwnOrder(orderId, u)
       THEN Send(r, "updateOrder", orderId, 404)
       ELSE IF orderRows[orderId].status \notin EditableStatuses
       THEN Send(r, "updateOrder", orderId, 400)
       ELSE IF ~OrderBodyPasses(orderData)
       THEN Send(r, "updateOrder", orderId, OrderBodyFailure(orderData))
       ELSE Await(r, "updateOrderTx",
                  [op |-> "updateOrder", orderId |-> orderId, user |-> u,
                   existingOrder |-> orderRows[orderId], write |-> OrderWrite(orderData)])
    /\ UNCHANGED <<coreVars, outsideOrders, rowIds, orderRows, orderItemRows>>

updateOrderTxKeepsItems(r) ==
    /\ hpc[r] = "updateOrderTx"
    /\ LET id == hreq[r].orderId
           w == hreq[r].write IN
       IF id \notin DOMAIN orderRows
       THEN /\ Send(r, "updateOrder", id, 500)
            /\ UNCHANGED <<orderRows, orderItemRows>>
       ELSE /\ orderRows' = [orderRows EXCEPT ![id].chemistId = w.chemistId,
                                              ![id].totalAmount = w.totalAmount,
                                              ![id].status = w.status]
            /\ orderItemRows' = orderItemRows
            /\ Send(r, "updateOrder", id, 200)
    /\ UNCHANGED <<coreVars, outsideOrders, rowIds>>

\* Lines 213-290: one transaction updates the order row (order.update throws
\* when the row is gone), deletes all its items and creates the new ones;
\* the order is then read back for the 200 response, which changes no row.
updateOrderTx(r) ==
    /\ hpc[r] = "updateOrderTx"
    /\ LET id == hreq[r].orderId
           w == hreq[r].write IN
       IF id \notin DOMAIN orderRows
       THEN /\ Send(r, "updateOrder", id, 500)
            /\ UNCHANGED <<orderRows, orderItemRows>>
       ELSE /\ orderRows' = [orderRows EXCEPT ![id].chemistId = w.chemistId,
                                              ![id].totalAmount = w.totalAmount,
                                              ![id].status = w.status]
            /\ orderItemRows' = [orderItemRows EXCEPT ![id] = w.items]
            /\ Send(r, "updateOrder", id, 200)
    /\ UNCHANGED <<coreVars, outsideOrders, rowIds>>

\* A statement of the transaction throws: rollback, 500.
updateOrderTxThrows(r) ==
    /\ hpc[r] = "updateOrderTx"
    /\ Send(r, "updateOrder", hreq[r].orderId, 500)
    /\ UNCHANGED <<coreVars, outsideOrders, rowIds, orderRows, orderItemRows>>

\* deleteOrder, deleteOrderController.ts lines 19-50: the order is looked up
\* by id and createdById = req.user.employeeId (404); its status is not
\* tested.
deleteOrder(r, e, orderId) ==
    /\ Arrives(r)
    /\ LET u == AttachedUser(e, DomainSchema) IN
       IF ~OwnOrder(orderId, u)
       THEN Send(r, "deleteOrder", orderId, 404)
       ELSE Await(r, "deleteOrderTx", [op |-> "deleteOrder", orderId |-> orderId])
    /\ UNCHANGED <<coreVars, outsideOrders, rowIds, orderRows, orderItemRows>>

\* Lines 61-82: one transaction deletes the items and the order row;
\* order.delete of a row that is gone throws P2025, answered 404 (line 106).
deleteOrderTx(r) ==
    /\ hpc[r] = "deleteOrderTx"
    /\ LET id == hreq[r].orderId IN
       IF id \notin DOMAIN orderRows
       THEN /\ Send(r, "deleteOrder", id, 404)
            /\ UNCHANGED <<orderRows, orderItemRows>>
       ELSE /\ orderRows' = Remove(orderRows, id)
            /\ orderItemRows' = Remove(orderItemRows, id)
            /\ Send(r, "deleteOrder", id, 200)
    /\ UNCHANGED <<coreVars, outsideOrders, rowIds>>

\* A statement of the transaction throws: rollback, and the catch block
\* answers 500 (400 for a foreign key error, which leaves the same rows).
deleteOrderTxThrows(r) ==
    /\ hpc[r] = "deleteOrderTx"
    /\ Send(r, "deleteOrder", hreq[r].orderId, 500)
    /\ UNCHANGED <<coreVars, outsideOrders, rowIds, orderRows, orderItemRows>>

\* Statuses an order that has not been confirmed is stored with: DRAFT, which
\* the handlers write, and PENDING, which updateOrder expects to find.
StoredOrderStatuses == {"DRAFT", "PENDING"}

\* Order 1 of a@acme, not yet confirmed, with one item.
OrdersInit ==
    /\ ServingInit
    /\ idScheme = "shared"
    /\ rowIds = [tb \in Tables |-> IF tb = "order" THEN 1 ELSE 0]
    /\ \E st \in StoredOrderStatuses :
          LET w == OrderWrite([chemistId |-> "chem1", action |-> "save",
                               items |-> <<[drugId |-> "drugA", quantity |-> 1,
                                            unitPrice |-> 0]>>]) IN
          /\ orderRows = Put(NoRows, 1, [createdById |-> UserRowId("a@acme"),
                                         chemistId |-> w.chemistId,
                                         totalAmount |-> w.totalAmount, status |-> st])
          /\ orderItemRows = Put(NoRows, 1, w.items)
    /\ NoTaskRows /\ NoDcrRows /\ NoSampleRows /\ NoAssociationRows

OrdersNext ==
    \/ \E r \in Reqs, e \in Actors, orderData \in OrderBodies : createOrder(r, e, orderData)
    \/ \E r \in Reqs : createOrderTx(r)
    \/ \E r \in Reqs : createOrderTxThrows(r)
    \/ \E r \in Reqs, e \in Actors, orderId \in RowIds, orderData \in OrderBodies :
          updateOrder(r, e, orderId, orderData)
    \/ \E r \in Reqs : updateOrderTx(r)
    \/ \E r \in Reqs : updateOrderTxThrows(r)
    \/ \E r \in Reqs, e \in Actors, orderId \in RowIds : deleteOrder(r, e, orderId)
    \/ \E r \in Reqs : deleteOrderTx(r)
    \/ \E r \in Reqs : deleteOrderTxThrows(r)

SpecOrders == OrdersInit /\ [][OrdersNext]_vars

\* ================================================================== claims
BadTokens == {"missing", "malformed", "expired", "noEmail"}
LiveFor(s) == {h \in live : handleSchema[h] = s}
\* The organization that owns schema s.
OwnerOf(s) == CHOOSE o \in OrgIds : orgRows[o].schemaName = s

\* C1: callers of getTenantClient(s) that overlap in one first-time window
\* (no close or failed creation in between) resolve to the same handle, and
\* that window constructs exactly one pool and runs at most one migration pass.
C1_ConcurrentFirstCallsShareOneHandle ==
    /\ \A s \in Schemas :
          /\ poolsConstructed[s] <= resets[s] + 1
          /\ migrationPasses[s] <= resets[s] + 1
    /\ \A c \in Reqs :
          (gtc[c].state \in {"waiting", "resolved"} /\ gtc[c].epoch = resets[gtc[c].schema])
             => poolsConstructed[gtc[c].schema] = resets[gtc[c].schema] + 1
    /\ \A c1, c2 \in Reqs :
          (/\ gtc[c1].state = "resolved" /\ gtc[c2].state = "resolved"
           /\ gtc[c1].schema = gtc[c2].schema /\ gtc[c1].epoch = gtc[c2].epoch)
             => gtc[c1].handle = gtc[c2].handle

\* Two callers that both joined the same in-flight creation have resolved.
C1_Witness ==
    \E c1, c2 \in Reqs :
        /\ c1 # c2
        /\ gtc[c1].state = "resolved" /\ gtc[c2].state = "resolved"
        /\ gtc[c1].joined /\ gtc[c2].joined
        /\ gtc[c1].schema = gtc[c2].schema /\ gtc[c1].epoch = gtc[c2].epoch
        /\ gtc[c1].handle = gtc[c2].handle
        /\ poolsConstructed[gtc[c1].schema] = 1
        /\ migrationPasses[gtc[c1].schema] = 1

\* C2: at most one live handle per schemaName, each live handle bound to one
\* schemaName, whatever the interleaving of getTenantClient,
\* initializeMigrations and closeAllConnections.
C2_OneLiveHandlePerSchema ==
    /\ \A s \in Schemas : Cardinality(LiveFor(s)) <= 1
    /\ \A h \in live : handleSchema[h] \in Schemas
    /\ \A s \in Schemas : cache[s] # NONE => cache[s] \in LiveFor(s)

\* A schema whose handle was closed has been given a fresh live handle while
\* a migration pass had been started.
C2_Witness ==
    \E h \in live :
        /\ h > 1
        /\ resets[handleSchema[h]] > 0
        /\ cache[handleSchema[h]] = h
        /\ imState = "running"

\* C3: getTenantClient is called only for an Organization that is active and
\* has a schemaName, on every path that calls it.
C3_HandleOnlyForActiveOrganization ==
    \A r \in Reqs :
        gtcCalls[r] > 0 => /\ gtc[r].schema \in Schemas
                           /\ orgRows[OwnerOf(gtc[r].schema)].isActive

\* C4: requests are served only after initializeMigrations has completed.
C4_MigrationsCompleteBeforeListening ==
    phase = "listening" => imState = "done"

\* C5: a failed initializeMigrations keeps the process from serving traffic.
C5_MigrationFailureIsFatal ==
    imState = "failed" => phase \notin {"listening", "closing", "cleanup", "cleaned", "exited"}

\* C6: on shutdown the server stops accepting, then the tenant pools are
\* closed, and only then the control-plane handle is disconnected.
C6_ShutdownOrder ==
    \A i \in 1..Len(shutdownTrace) :
        /\ shutdownTrace[i] # "stopAccepting" => shutdownTrace[1] = "stopAccepting"
        /\ shutdownTrace[i] = "disconnectShared"
              => \E j \in 1..(i - 1) : shutdownTrace[j] = "closeAllConnections"

\* C7: while a tenant handle is live the control-plane handle is connected.
C7_ControlPlaneOutlivesTenantHandles ==
    live # {} => sharedConnected

\* C8: a missing, invalid or expired credential, or one without an email
\* claim, is answered 401 without any control-plane or tenant query.
C8_BadCredentialIs401BeforeAnyQuery ==
    \A r \in Reqs :
        (pc[r] # "idle" /\ route[r] \in TenantRoutes /\ cred[r].token \in BadTokens)
           => /\ pc[r] = "done"
              /\ status[r] = 401
              /\ responses[r] = 1
              /\ sharedQueries[r] = 0
              /\ tenantQueries[r] = 0
              /\ gtcCalls[r] = 0

\* A request with an expired or badly signed token has been answered.
C8_Witness ==
    \E r \in Reqs :
        /\ route[r] \in TenantRoutes
        /\ cred[r].token \in {"malformed", "expired"}
        /\ status[r] = 401

\* C9: with a valid credential whose control-plane lookup returned, the
\* first failing check decides the status:
\* no User 404, no organizationId 400, inactive Organization 403, null
\* schemaName 500; an inactive organization with a null schemaName gets 403.
C9_FirstFailingCheckDecides ==
    \A r \in Reqs :
        (route[r] \in TenantRoutes /\ cred[r].token = "valid"
         /\ pc[r] \notin {"idle", "mwLookup", "failed"})
           => LET e == cred[r].email IN
              /\ e \notin DOMAIN userRows => status[r] = 404
              /\ (e \in DOMAIN userRows /\ userRows[e].organizationId = NULL) => status[r] = 400
              /\ (e \in DOMAIN userRows /\ userRows[e].organizationId # NULL)
                    => LET org == orgRows[userRows[e].organizationId] IN
                       /\ ~org.isActive => status[r] = 403
                       /\ (org.isActive /\ org.schemaName = NULL) => status[r] = 500
                       /\ (org.isActive /\ org.schemaName # NULL)
                             => (gtcCalls[r] = 1 /\ (pc[r] = "mwTenant" => status[r] = NONE))

\* A user of an inactive organization without schemaName was answered 403.
C9_Witness ==
    \E r \in Reqs :
        /\ route[r] \in TenantRoutes
        /\ cred[r].token = "valid" /\ cred[r].email = "d@delta"
        /\ status[r] = 403

\* C10: a request that fails one of steps 1 to 6 never calls getTenantClient
\* and its steps leave the registry (cache, markers, handles) as they were.
C10_EarlyFailureLeavesRegistryUnchanged ==
    [][\A r \in Reqs :
          (pc[r] \in {"idle", "mwLookup"} /\ pc'[r] \in {"done", "failed"}
             /\ route'[r] \in TenantRoutes)
             => /\ UNCHANGED <<cache, inflight, live, handleSchema, nextHandle, poolsConstructed>>
                /\ gtcCalls'[r] = 0
                /\ gtc'[r] = NoCall
                /\ reqTenantDb'[r] = NONE]_vars

\* Scenario B next to a populated cache: a user of an inactive organization
\* that has a schema was answered 403 while another tenant's handle is cached.
C10_Witness ==
    \E r \in Reqs :
        /\ route[r] \in TenantRoutes
        /\ cred[r].email = "b@beta" /\ status[r] = 403
        /\ gtcCalls[r] = 0
        /\ cache["org_acme"] # NONE
        /\ cache["org_beta"] = NONE

\* The request presented a valid credential that passed steps 1 to 7.
PassedStep7(r) ==
    /\ route[r] \in TenantRoutes
    /\ cred[r].token = "valid"
    /\ gtcCalls[r] = 1 /\ gtc[r].state = "resolved"
    /\ pc[r] \in {"handler", "done"}
\* The tenant schema of the request holds an employee row for its email.
EmployeeRowExists(r) == cred[r].email \in Employees[gtc[r].schema]

\* C11: when the tenant schema holds no employee row for the credential's
\* email, the request is answered 404 and no domain handler runs.
C11_MissingEmployeeIs404 ==
    \A r \in Reqs :
        (PassedStep7(r) /\ ~EmployeeRowExists(r))
           => /\ status[r] = 404
              /\ nextCalled[r] = 0
              /\ tenantQueries[r] = 1

\* C12: the step attaches all or nothing: either next() was called once with
\* the identity (tenant-scoped id included) and the handle attached, or one
\* error response was sent, next() was not called and nothing is attached.
C12_NoPartialTenantContext ==
    \A r \in Reqs :
        (route[r] \in TenantRoutes /\ pc[r] \in {"handler", "done", "failed"})
           => \/ /\ nextCalled[r] = 1
                 /\ reqUser[r] # NoUser /\ reqUser[r].id # NULL
                 /\ reqTenantDb[r] # NONE
              \/ /\ nextCalled[r] = 0
                 /\ responses[r] = 1 /\ status[r] \in {400, 401, 403, 404, 500}
                 /\ reqUser[r] = NoUser
                 /\ reqTenantDb[r] = NONE

\* C13 (Scenario A): for a valid credential of a User of an active
\* organization with schemaName S and an Employee row, the identity's role is
\* the credential's role claim and the attached handle is the one
\* getTenantClient(S) returned, bound to S.
C13_ScenarioA ==
    \A r \in Reqs :
        (PassedStep7(r) /\ EmployeeRowExists(r) /\ nextCalled[r] = 1)
           => LET S == organizationOf(cred[r].email).schemaName IN
              /\ reqUser[r].role = roleClaim(cred[r])
              /\ gtc[r].schema = S
              /\ reqTenantDb[r] = gtc[r].handle
              /\ handleSchema[reqTenantDb[r]] = S

\* The request of a@acme reached its handler with the org_acme handle.
C13_Witness ==
    \E r \in Reqs :
        /\ PassedStep7(r) /\ nextCalled[r] = 1
        /\ cred[r].email = "a@acme"
        /\ reqUser[r].id = EmployeeRowId("org_acme", "a@acme") /\ reqUser[r].role = "MR"
        /\ handleSchema[reqTenantDb[r]] = "org_acme"

MiddlewarePositions == {"idle", "mwLookup", "mwTenant", "mwEmployee"}

\* C14: no step of tenantMiddleware, on a successful or a failed request,
\* changes an Organization row, a User row or a tenant row; only the step
\* that calls getTenantClient may change the registry.
C14_ResolutionIsReadOnly ==
    [][\A r \in Reqs :
          (pc[r] \in MiddlewarePositions /\ pc'[r] # pc[r] /\ route'[r] \in TenantRoutes)
             => /\ UNCHANGED <<orgRows, userRows, tenantRows>>
                /\ pc[r] # "mwLookup"
                      => UNCHANGED <<cache, inflight, live, handleSchema, nextHandle,
                                     poolsConstructed, migrationPasses, schemaCurrent>>]_vars

\* One request was resolved through a newly cached handle and another was
\* refused, and every row of both stores is as it was at the start.
C14_Witness ==
    /\ \E r \in Reqs : PassedStep7(r) /\ nextCalled[r] = 1 /\ cred[r].email = "x@acme"
    /\ \E r \in Reqs : route[r] \in TenantRoutes /\ status[r] \in {403, 404}
                         /\ nextCalled[r] = 0
    /\ cache["org_acme"] # NONE
    /\ orgRows = Organizations /\ userRows = Users
    /\ tenantRows = [s \in Schemas |-> {}]

\* The handles cached at this moment.
CachedHandles == {cache[s] : s \in {x \in Schemas : cache[x] # NONE}}

\* C15: a step that drops a cache entry (closeAllConnections) closes every
\* handle cached at the time, leaves the cache empty, and leaves the
\* control-plane handle and a creation in flight as they were.
C15_CloseAllClosesEveryCachedHandle ==
    [][(\E s \in Schemas : cache[s] # NONE /\ cache'[s] = NONE)
          => /\ \A s \in Schemas : cache'[s] = NONE
             /\ live' = live \ CachedHandles
             /\ sharedConnected' = sharedConnected
             /\ inflight' = inflight]_vars

\* Both schemas have had their handle closed, nothing is cached or live, and
\* the control-plane handle is still connected.
C15_Witness ==
    /\ \A s \in Schemas : resets[s] >= 1 /\ cache[s] = NONE
    /\ failCount = 0
    /\ live = {}
    /\ sharedConnected

\* C16: after closeAllConnections every getTenantClient has one kind of
\* outcome, a fresh handle: a call resolved since the latest close of its
\* schema holds the live, cached handle, never a closed one, and without a
\* database failure no call is rejected.  A second closeAllConnections in a
\* row finds the cache empty and changes nothing.
C16_GetAfterCloseIsAlwaysFresh ==
    /\ \A c \in Reqs :
          (gtc[c].state = "resolved" /\ gtc[c].epoch = resets[gtc[c].schema])
             => /\ gtc[c].handle \in live
                /\ cache[gtc[c].schema] = gtc[c].handle
    /\ failCount = 0 => \A c \in Reqs : gtc[c].state # "rejected"

\* A caller holds a fresh live handle for a schema whose earlier handle was
\* closed.
C16_Witness ==
    \E c \in Reqs :
        /\ gtc[c].state = "resolved"
        /\ resets[gtc[c].schema] >= 1 /\ gtc[c].epoch = resets[gtc[c].schema]
        /\ gtc[c].handle > 1 /\ gtc[c].handle \in live
        /\ failCount = 0

AllCurrent == \A s \in Schemas : schemaCurrent[s]

\* C17: when every schema is already current, a pass of initializeMigrations
\* issues no schema-change statement and leaves every schema's state as it is.
C17_InitializeMigrationsIdempotent ==
    [][AllCurrent => (ddlCount' <= ddlCount /\ schemaCurrent' = schemaCurrent)]_vars

\* A pass has completed with zero statements over schemas that only an
\* earlier pass can have brought current.
C17_Witness ==
    /\ imState = "done" /\ ddlCount = 0
    /\ AllCurrent
    /\ \A s \in Schemas : migrationPasses[s] = 0

\* C18: provisionSchema is atomic for observers: an Organization whose unit
\* of work has not committed (running, failed or never started) keeps
\* schemaName = null, and a visible schemaName names a namespace with the
\* full manifest applied.
C18_ProvisionSchemaAtomic ==
    \A o \in OrgIds :
        /\ (o \in NewOrgs /\ prov[o].state # "committed") => orgRows[o].schemaName = NULL
        /\ orgRows[o].schemaName # NULL
              => \/ orgRows[o].schemaName \in Schemas
                 \/ /\ orgRows[o].schemaName \in NewSchemas
                    /\ nsVersion[orgRows[o].schemaName] = ManifestLen

\* One organization has been provisioned and another has none, after a unit
\* of work failed and was rolled back without leaving a namespace behind.
C18_Witness ==
    \E o1, o2 \in NewOrgs :
        /\ prov[o1].state = "committed" /\ orgRows[o1].schemaName = prov[o1].schema
        /\ prov[o2] = NoUnit /\ orgRows[o2].schemaName = NULL
        /\ failCount = 1 /\ imState # "failed"
        /\ \A s \in NewSchemas \ {prov[o1].schema} : nsVersion[s] = ABSENT

\* The organization a tenant row belongs to: the organizationId column of a
\* hospital row, the organization of the user of an employee row.
RowOrg(v) == IF v \in OrgIds THEN v ELSE Users[v].organizationId

\* C20: tenant isolation: every row in a schema was written by an identity of
\* the organization that owns the schema, and what a request reads through
\* its handle are rows of its own organization only.
C20_TenantIsolation ==
    /\ \A s \in Schemas : \A v \in tenantRows[s] : RowOrg(v) = OwnerOf(s)
    /\ \A r \in Reqs : \A v \in fetched[r] : RowOrg(v) = userRows[cred[r].email].organizationId

\* A user of beta has written a hospital row and a user of acme has read the
\* hospitals of acme, while both schemas hold rows.
C20_Witness ==
    /\ \E r \in Reqs : cred[r].email = "b@beta" /\ route[r] = "createHospital"
                         /\ status[r] = 201
    /\ \E r \in Reqs : cred[r].email \in {"a@acme", "x@acme"} /\ route[r] = "fetchHospitals"
                         /\ status[r] = 200 /\ fetched[r] = {"acme"}
    /\ tenantRows["org_beta"] = {"beta"}
    /\ cache["org_acme"] # NONE /\ cache["org_beta"] # NONE

\* A database call of the request's resolution was rejected: the control-plane
\* lookup, getTenantClient, or the employee query after the handle was attached.
ResolutionRejected(r) ==
    \/ pc[r] = "failed"
    \/ gtc[r].state = "rejected" /\ pc[r] # "mwTenant"
    \/ pc[r] \in {"handler", "done"} /\ reqTenantDb[r] # NONE /\ reqUser[r] = NoUser

\* C21: a rejected getTenantClient or database call inside tenant resolution
\* ends the request with exactly one 500 response, no handler runs, and
\* getTenantClient is called at most once per request.
C21_RejectionIsOne500NoRetry ==
    \A r \in Reqs :
        route[r] \in TenantRoutes
           => /\ gtcCalls[r] <= 1
              /\ ResolutionRejected(r)
                    => /\ status[r] = 500 /\ responses[r] = 1
                       /\ nextCalled[r] = 0
                       /\ pc[r] \in {"done", "failed"}
                       /\ tenantQueries[r] <= 1

\* The creation a request was waiting for failed and the request was
\* answered 500 after its one getTenantClient call.
C21_Witness ==
    \E r \in Reqs :
        /\ route[r] \in TenantRoutes
        /\ gtc[r].state = "rejected" /\ gtcCalls[r] = 1
        /\ status[r] = 500 /\ responses[r] = 1 /\ nextCalled[r] = 0


\* ------------------------------------------------------------------ C22
SubmittedDcrs == {id \in DOMAIN dcrRows : ~dcrRows[id].isDraft}

\* Request r has passed the draft check for report id and is about to write.
PastDraftCheck(r, id) ==
    /\ hpc[r] \in {"updateDcrWrite", "deleteDcrWrite"}
    /\ hreq[r].dcrId = id
    /\ hreq[r].existingDCR.isDraft

SameDcrKey(a, b) ==
    /\ a.taskId = b.taskId /\ a.taskType = b.taskType /\ a.employeeId = b.employeeId

\* C23: at most one DCR report exists per (taskId, taskType, employee), and a
\* createDcr that completes while a report for its task exists answers 409
\* and creates nothing, whether or not its existence check ran before the
\* other request's create.
C23_OneDcrPerTask ==
    [][/\ \A i, j \in DOMAIN dcrRows' : SameDcrKey(dcrRows'[i], dcrRows'[j]) => i = j
       /\ \A r \in Reqs :
             (/\ hpc[r] \in {"createDcrCheck", "createDcrWrite"} /\ hpc'[r] = "done"
              /\ DcrExistsFor(hreq[r].taskId, hreq[r].user))
                => hstatus'[r] = 409 /\ dcrRows' = dcrRows]_vars

\* ------------------------------------------------------------------ C24
RECURSIVE SumQuantity(_, _)
\* Total quantity the items of one list draw from inventory row i.
SumQuantity(items, i) ==
    IF items = <<>> THEN 0
    ELSE (IF Head(items).inventoryId = i THEN Head(items).quantity ELSE 0)
         + SumQuantity(Tail(items), i)

RECURSIVE DrawnFrom(_, _)
\* Total quantity the distributions with ids 1..n draw from inventory row i.
DrawnFrom(n, i) ==
    IF n = 0 THEN 0
    ELSE (IF n \in DOMAIN distRows THEN SumQuantity(distRows[n].drugItems, i) ELSE 0)
         + DrawnFrom(n - 1, i)

\* C24: sample inventory is conserved: every inventory row's quantity is its
\* initial quantity minus the quantities of all distribution items drawn
\* from it, and never negative; a createDistribution that is answered 500
\* left no distribution row behind.
C24_InventoryConserved ==
    /\ \A i \in DOMAIN invRows :
          /\ invRows[i] = MaxQty - DrawnFrom(rowIds["dist"], i)
          /\ invRows[i] >= 0
    /\ Cardinality(DOMAIN distRows)
          = Cardinality({r \in Reqs : hpc[r] = "done" /\ hstatus[r] = 201})

\* ------------------------------------------------------------------ C25
PrimaryAssociations(doctorId) ==
    {id \in DOMAIN assocRows : assocRows[id].doctorId = doctorId /\ assocRows[id].isPrimary}

\* C25: each doctor has at most one hospital association with isPrimary =
\* true, after any sequence and interleaving of the association handlers.
C25_OnePrimaryHospital ==
    \A d \in Doctors : Cardinality(PrimaryAssociations(d)) <= 1

\* ------------------------------------------------------------------ C26
\* C26: no active task belongs to a deleted task planner: every task with
\* isActive = true has a planner with isActive = true.
C26_NoActiveTaskOfDeletedPlanner ==
    \A id \in DOMAIN taskRows :
        taskRows[id].isActive
           => /\ taskRows[id].plannerId \in DOMAIN plannerRows
              /\ plannerRows[taskRows[id].plannerId].isActive

\* ------------------------------------------------------------------ C29
\* C29: a task planner cannot be submitted for approval without tasks: when
\* updateTaskPlannerStatus writes PENDING_APPROVAL to a planner, the planner
\* has at least one active task at that moment, and after the write the
\* planner and all its active tasks carry the new approvalStatus.
C29_NoSubmitWithoutTasks ==
    [][\A r \in Reqs :
          (/\ hpc[r] = "updateTaskPlannerStatusTx" /\ hpc'[r] = "done"
           /\ hreq[r].approvalStatus = "PENDING_APPROVAL")
             => LET p == hreq[r].plannerId IN
                /\ ActiveTasksOf(p) # {}
                /\ plannerRows'[p].approvalStatus = "PENDING_APPROVAL"
                /\ \A id \in ActiveTasksOf(p) :
                      taskRows'[id].approvalStatus = "PENDING_APPROVAL"]_vars

\* ------------------------------------------------------------------ C27
\* What updateOrder does when only orders found in a status of S may be
\* edited: the lookup answers 404 for an order that is not the requester's
\* and 400 for one in a status outside S, changing nothing; and the
\* transaction that changes an order and its items belongs to a request of
\* the order's creator whose lookup found the order in a status of S, and
\* touches no other order.
OrderEditRule(S) ==
    /\ \A r \in Reqs :
          (hpc[r] = "idle" /\ hpc'[r] # "idle" /\ hreq'[r].op = "updateOrder")
             => /\ orderRows' = orderRows /\ orderItemRows' = orderItemRows
                /\ hpc'[r] = "updateOrderTx"
                      => /\ OwnOrder(hreq'[r].orderId, hreq'[r].user)
                         /\ orderRows[hreq'[r].orderId].status \in S
                /\ hpc'[r] = "done"
                      => LET id == hreq'[r].target IN
                         (id \in DOMAIN orderRows /\ orderRows[id].status \notin S)
                            => \A e \in Actors, orderData \in OrderBodies :
                                  updateOrder(r, e, id, orderData)
                                     => hstatus'[r] =
                                           IF OwnOrder(id, AttachedUser(e, DomainSchema))
                                           THEN 400 ELSE 404
    /\ \A r \in Reqs :
          (hpc[r] = "updateOrderTx" /\ hpc'[r] = "done" /\ hstatus'[r] = 200)
             => LET id == hreq[r].orderId IN
                /\ hreq[r].existingOrder.status \in S
                /\ hreq[r].existingOrder.createdById = hreq[r].user.employeeId
                /\ \A o \in DOMAIN orderRows \ {id} :
                      /\ o \in DOMAIN orderRows'
                      /\ orderRows'[o] = orderRows[o] /\ orderItemRows'[o] = orderItemRows[o]

RECURSIVE SumOfSubtotals(_)
SumOfSubtotals(items) ==
    IF items = <<>> THEN 0 ELSE Head(items).subtotal + SumOfSubtotals(Tail(items))

\* Every order has its items and every item list its order; the order's
\* totalAmount is the sum of its items' subtotals, and each subtotal is
\* quantity times unitPrice.
OrderTotalsAgree ==
    /\ DOMAIN orderItemRows = DOMAIN orderRows
    /\ \A id \in DOMAIN orderRows :
          /\ orderRows[id].totalAmount = SumOfSubtotals(orderItemRows[id])
          /\ \A i \in DOMAIN orderItemRows[id] :
                orderItemRows[id][i].subtotal
                    = orderItemRows[id][i].quantity * orderItemRows[id][i].unitPrice

\* Request r leaves one of the three transactions with a failure.
OrderTxFails(r) ==
    /\ hpc[r] \in {"createOrderTx", "updateOrderTx", "deleteOrderTx"}
    /\ hpc'[r] = "done" /\ hstatus'[r] \notin {200, 201}

\* C28: in every reachable state an order's totalAmount equals the sum of
\* subtotal over its current items and each subtotal equals quantity times
\* unitPrice; createOrder, updateOrder and deleteOrder each write the order
\* and its item set in one step, and a failure inside any of them leaves
\* orders and items as before.
C28_OrderTotalMatchesItems ==
    /\ OrderTotalsAgree
    /\ [][/\ OrderTotalsAgree'
          /\ \A r \in Reqs :
                OrderTxFails(r) => orderRows' = orderRows /\ orderItemRows' = orderItemRows]_vars

\* An updateOrder replaced the one item of order 1 by two items, and another
\* request's transaction failed.
C28_Witness ==
    /\ 1 \in DOMAIN orderRows /\ Len(orderItemRows[1]) = 2
    /\ orderRows[1].totalAmount = MaxQty * 3
    /\ \E r, q \in Reqs :
          /\ hpc[r] = "done" /\ hreq[r] = [op |-> "updateOrder", target |-> 1]
          /\ hstatus[r] = 200
          /\ hpc[q] = "done" /\ hreq[q].op \in {"createOrder", "updateOrder", "deleteOrder"}
          /\ hstatus[q] = 500

\* ------------------------------------------------------------------ C30
\* Task id is one that user u (as the task handlers know it, by req.user.id)
\* owns, has marked COMPLETED or RESCHEDULED, and has no DCR report for.
ReportableBy(id, u) ==
    /\ u.id # NULL
    /\ id \in DOMAIN taskRows /\ taskRows[id].employeeId = u.id
    /\ taskRows[id].completionStatus \in ReportableStatuses
    /\ \A d \in DOMAIN dcrRows : dcrRows[d].taskId # id

\* C30: the acting employee is identified consistently across handlers: a
\* task that a user created with createTask and marked COMPLETED or
\* RESCHEDULED, and that has no DCR yet, is among the tasks getTasksForDcr
\* answers to that user, and createDcr for it by that user is not answered
\* 404.
C30_SameEmployeeAcrossHandlers ==
    [][\A r \in Reqs :
          /\ (hpc[r] = "getTasksForDcrTasks" /\ hpc'[r] = "done")
                => \A id \in DOMAIN taskRows :
                      ReportableBy(id, hreq[r].user) => id \in hreq'[r].target
          /\ (hpc[r] = "idle" /\ hpc'[r] # "idle" /\ hreq'[r].op = "createDcr")
                => LET id == IF hpc'[r] = "done" THEN hreq'[r].target ELSE hreq'[r].taskId IN
                   \A e \in Actors :
                      ReportableBy(id, AttachedUser(e, DomainSchema))
                         => \A body \in Bodies \ {EmptyBody}, isDraft \in BOOLEAN :
                               createDcr(r, e, id, body, isDraft)
                                  => hpc'[r] = "createDcrCheck"]_vars

====
